---- MODULE Spec2Model ----
(***************************************************************************)
(* A model of the procurement scrapers of rfpsonar-salesforce:             *)
(*   - the jurisdiction scrapers of src/scrapers (BaseScraper and its      *)
(*     Kentucky, Massachusetts, Pennsylvania, Puerto Rico and Virginia     *)
(*     subclasses), one action per step of scrape();                       *)
(*   - the record store (Salesforce) as the set of natural keys held for   *)
(*     the scraper's account, with its query and create answers as inputs; *)
(*   - the trigger service of src/app.py: /scrape/<jurisdiction> and       *)
(*     /scrape/batch around the runs of the registered scrapers;           *)
(*   - the token cache of SalesforceAuth;                                  *)
(*   - the field mappers of BaseScraper and of scripts/ky_scraper.py.      *)
(***************************************************************************)
EXTENDS Integers, Sequences, FiniteSets, TLC

\* ------------------------------------------------------------------ bounds
MaxRows  == 2      \* rows of a portal listing, over all its pages
MaxPages == 2      \* pages of a paginated listing
MaxRuns  == 2      \* consecutive runs against the same portal and store
NumKeys  == 2      \* distinct solicitation numbers a portal may show
FirstDay == 1      \* the day number of the first run
MaxDayShift == 1   \* days that may pass between two runs
MaxBatch == 3      \* jurisdictions named in one batch request
MaxRequests == 1   \* requests the trigger service is followed for
MaxClock == 22     \* ticks of ten minutes the token cache is followed for
MaxLen == 3        \* characters of a raw solicitation type
MaxPieces == 2     \* pieces a raw category is put together from
MaxText == 256     \* characters of a portal text or of an error message
MaxCalls == 2      \* calls of get_access_token by one thread
MaxStrategies == 3 \* locator strategies of one row field
MaxDeadClicks == 1 \* clicks on the last page's control that are followed

\* ------------------------------------------------------------ vocabulary
None == <<>>
Some(x) == <<x>>

Jurisdictions == {"kentucky", "massachusetts", "pennsylvania", "puerto_rico", "virginia"}

\* A natural key. tag "K": a number read from the portal; tag "": the empty
\* string; tags "PR"/"VA": the synthetic key <tag>-<run date>-<row position>.
Key(tag, day, n) == [tag |-> tag, day |-> day, n |-> n]
EmptyKey == Key("", 0, 0)
PortalKeys == {Key("K", 0, i) : i \in 1..NumKeys}
IsEmptyKey(k) == k.tag = ""

\* A closing-date text of a portal row: its format class and the day it names.
DateText(fmt, day) == [fmt |-> fmt, day |-> day]
DateFormats == {"empty", "mdY", "mdY_hms", "mdY_hm_tz", "iso", "garbage"}
GoodDate == DateText("mdY_hms", FirstDay + 7)

Row(k, d) == [key |-> k, date |-> d]

\* The pages of a listing: 1..MaxPages pages holding at most MaxRows rows in
\* all; only the first page may be empty.
RECURSIVE TotalRows(_)
TotalRows(pages) ==
    IF pages = <<>> THEN 0 ELSE Len(Head(pages)) + TotalRows(Tail(pages))

PagesOver(rows) == UNION {[1..n -> rows] : n \in 0..MaxRows}

PortalsOver(rows) ==
    {p \in UNION {[1..m -> PagesOver(rows)] : m \in 1..MaxPages} :
        /\ TotalRows(p) <= MaxRows
        /\ \A i \in 2..Len(p) : Len(p[i]) > 0}

VARIABLES
    today,       \* datetime.now(), as a day number
    portal,      \* the portal's listing: a sequence of pages of rows
    store,       \* natural keys of the account's opportunities in the store
    runNo,       \* number of scrape() calls started so far
    jur,         \* the scraper class of the current run
    creds,       \* whether the portal credentials are in the environment
    pc,          \* position in scrape()
    existing,    \* the fetched existing-key set
    session,     \* the open session resources
    pageNo,      \* page being extracted
    rowNo,       \* next row of the page
    createLog,   \* the create calls of this run, in order
    rowLog,      \* what became of each row of this run, in order
    created,     \* the run's count of new records
    skipped,     \* Pennsylvania's skipped_count
    errors,      \* Pennsylvania's error_count
    exc,         \* the exception being handled or propagated
    cause,       \* the first exception of the run
    outcome,     \* "running", "returned" or "raised"
    result,      \* the value scrape() returned
    stubs,       \* stub records created in this run
    statusLog,   \* account-status writes of this run
    storeAtStart,\* the store when the run started
    opLog,       \* the run's calls to the store and the portal, in order
    \* the trigger service (src/app.py)
    req,         \* the request being handled
    apc,         \* position in the request handler
    idx,         \* scrape_batch: position in the jurisdictions list
    results,     \* scrape_batch: the results dict
    response,    \* the response of the last request handled
    runLog,      \* the scraper runs of the request, in order
    accounts,    \* the store's keys per account, between runs
    \* SalesforceAuth
    clock,       \* datetime.now(), in ticks of ten minutes
    auth,        \* the SalesforceAuth object
    lastCall,    \* the last call of get_access_token and how it ended
    thr,         \* each thread's position in get_access_token
    posts,       \* POSTs sent to the token endpoint by the threads
    \* the field mappers
    mapCall,     \* the last call of a mapper and how it ended
    fields,      \* the texts a record is built from and the record built
    sched,       \* the scheduled run over all jurisdictions
    pick,        \* the outcomes of a field's locator strategies and the value picked
    nextCtl,     \* the portal's next-page control on its last page
    bg           \* the background runs started by src/rfp-sonar/app.py

runVars == <<jur, creds, pc, existing, session, pageNo, rowNo, createLog,
             rowLog, created, skipped, errors, exc, cause, outcome, result, stubs,
             statusLog, storeAtStart, opLog>>
envVars == <<today, portal, store, runNo>>
apiVars == <<req, apc, idx, results, response, runLog, accounts>>
authVars == <<clock, auth, lastCall, thr, posts>>
mapVars == <<mapCall>>
fieldVars == <<fields>>
schedVars == <<sched>>
pickVars == <<pick>>
pageVars == <<nextCtl>>
bgVars == <<bg>>
sideVars == <<apiVars, authVars, mapVars, fieldVars, schedVars, pickVars, pageVars, bgVars>>
vars == <<envVars, runVars, sideVars>>

\* ------------------------------------------------------- BaseScraper
\* The methods BaseScraper defines, and the names its module imports.
BaseScraperMethods ==
    {"setup_browser", "cleanup", "get_account_id", "scrape",
     "get_existing_solicitation_numbers", "create_salesforce_opportunity",
     "create_stub_opportunity", "map_solicitation_type", "map_category",
     "parse_closing_date"}

BaseScraperGlobals ==
    {"ABC", "abstractmethod", "sync_playwright", "PlaywrightTimeout", "os",
     "requests", "datetime"}

\* The methods a subclass adds.
SubclassMethods(j) ==
    CASE j = "kentucky"      -> {"_query_account_id", "parse_date"}
      [] j = "massachusetts" -> {"parse_date"}
      [] j = "pennsylvania"  -> {"navigate_to_solicitations", "export_csv",
                                 "parse_csv", "parse_date", "create_opportunity"}
      [] OTHER               -> {"parse_date"}

\* Attribute lookup self.<m>: found in the subclass or in BaseScraper,
\* AttributeError otherwise.
HasMethod(j, m) == m \in BaseScraperMethods \cup SubclassMethods(j)

AllOpen == {"playwright", "browser", "page"}

\* BaseScraper.cleanup: closes whichever of page, browser, playwright is set.
Cleanup(s) == ((s \ {"page"}) \ {"browser"}) \ {"playwright"}

\* get_existing_solicitation_numbers: on 200 the non-empty keys of the
\* account's records, on any other answer the empty set.
GetExistingSolicitationNumbers(resp, st) ==
    IF resp = "200" THEN {k \in st : ~IsEmptyKey(k)} ELSE {}

QueryResponses == {"200", "500"}
\* The store's answer to a create call: 201, a rejection, or the request raising.
CreateResponses == {"201", "400", "exc"}

\* ------------------------------------------------------ date parsing
FallbackDays == 30

\* KentuckyScraper.parse_date: the text before the first blank, as %m/%d/%Y.
ParseDateKY(d) ==
    IF d.fmt = "empty" THEN None
    ELSE IF d.fmt \in {"mdY", "mdY_hms", "mdY_hm_tz"} THEN Some(d.day)
    ELSE None

\* MassachusettsScraper.parse_date: None for no text, the whole text as
\* %m/%d/%Y %I:%M:%S %p, and 30 days from now when that fails.
ParseDateMA(d, now) ==
    IF d.fmt = "empty" THEN None
    ELSE IF d.fmt = "mdY_hms" THEN Some(d.day)
    ELSE Some(now + FallbackDays)

\* PennsylvaniaScraper.parse_date: the first format that parses, else None.
ParseDatePA(d) ==
    IF d.fmt = "empty" THEN None
    ELSE IF d.fmt \in {"mdY", "mdY_hms", "iso"} THEN Some(d.day)
    ELSE None

\* PuertoRicoScraper.parse_date / VirginiaScraper.parse_date.
ParseDatePR(d, now) ==
    IF d.fmt = "empty" THEN None
    ELSE IF d.fmt \in {"mdY", "iso"} THEN Some(d.day)
    ELSE Some(now + FallbackDays)

\* The CloseDate a scraper puts in the record of a row.
CloseDateKY(d, now) ==
    IF ParseDateKY(d) = None THEN Some(now) ELSE ParseDateKY(d)

CloseDateMA(d, now) == ParseDateMA(d, now)

CloseDatePR(d, now) ==
    IF d.fmt = "empty" \/ ParseDatePR(d, now) = None
    THEN Some(now + FallbackDays)
    ELSE ParseDatePR(d, now)

CloseDateOf(j, d, now) ==
    CASE j = "kentucky"      -> CloseDateKY(d, now)
      [] j = "massachusetts" -> CloseDateMA(d, now)
      [] j = "pennsylvania"  -> ParseDatePA(d)
      [] OTHER               -> CloseDatePR(d, now)

\* ------------------------------------------------------- the results
\* A value scrape() hands back: None, or a dict. keys: the dict's keys;
\* success: the value under 'success' ("absent" when the key is missing);
\* error: the text under 'error'.
NoResult == [kind |-> "unset", keys |-> {}, status |-> "", created |-> 0,
             existing |-> 0, pages |-> 0, success |-> "absent", error |-> "",
             new_created |-> 0, total_found |-> 0]
PyNone == [NoResult EXCEPT !.kind = "None"]

\* Massachusetts: {'status', 'created', 'existing', 'pages_processed'}.
ResultMA(n, ex, pg) ==
    [NoResult EXCEPT !.kind = "dict",
                     !.keys = {"status", "created", "existing", "pages_processed"},
                     !.status = "success", !.created = n,
                     !.existing = Cardinality(ex), !.pages = pg]

\* Puerto Rico and Virginia: {'status', 'created', 'existing'}.
ResultPR(n, ex) ==
    [NoResult EXCEPT !.kind = "dict", !.keys = {"status", "created", "existing"},
                     !.status = "success", !.created = n,
                     !.existing = Cardinality(ex)]

ResultFailedPR(ex) ==
    [NoResult EXCEPT !.kind = "dict",
                     !.keys = {"status", "created", "existing", "error"},
                     !.status = "failed", !.existing = Cardinality(ex),
                     !.error = "No solicitations found"]

\* --------------------------------------------------------- scrape()
RECURSIVE Flatten(_)
Flatten(pages) == IF pages = <<>> THEN <<>> ELSE Head(pages) \o Flatten(Tail(pages))

\* A pager that walks the pages from the last one back to the first.
ReversePage(p, n) == IF n > Len(p) THEN 1 ELSE Len(p) + 1 - n

\* The page the portal shows when page_num is n: a click on the control of
\* the last page leaves the last page in place.
ShownPage(p, n) == IF n > Len(p) THEN Len(p) ELSE n

\* The rows the scraper iterates over at its current page.
Listing(j) ==
    CASE j = "massachusetts" -> portal[ShownPage(portal, pageNo)]
      [] j = "pennsylvania"  -> Flatten(portal)
      [] OTHER               -> portal[1]

\* The positions of scrape() that lie inside its try block.
InTry(j, p) ==
    CASE j = "kentucky"     -> p \in {"fetch", "setup", "nav", "filter", "rows", "status"}
      [] j = "pennsylvania" -> p \in {"nav", "filter", "fetch", "rows"}
      [] OTHER              -> p \in {"nav", "filter", "norows", "rows", "status"}

\* An exception e raised at the current position: the except clause takes it
\* inside the try block, and it leaves scrape() otherwise. Kentucky's
\* `with sync_playwright()` block releases the session on the way out.
Throw(e) ==
    /\ exc' = e
    /\ cause' = IF cause = "none" THEN e ELSE cause
    /\ IF InTry(jur, pc)
       THEN pc' = "handler" /\ outcome' = outcome
       ELSE pc' = "done" /\ outcome' = "raised"
    /\ session' = IF jur = "kentucky" THEN {} ELSE session

\* scraper_class() followed by the call of scrape(); st: the store's records
\* of the scraper's account at that moment.
BeginScrape(j, c, st) ==
    /\ jur' = j
    /\ creds' = c
    /\ pc' = CASE j \in {"kentucky", "massachusetts"} -> "creds"
               [] j = "pennsylvania" -> "setup"
               [] OTHER -> "fetch"
    /\ existing' = {}
    /\ session' = {}
    /\ pageNo' = 1
    /\ rowNo' = 1
    /\ createLog' = <<>>
    /\ rowLog' = <<>>
    /\ created' = 0
    /\ skipped' = 0
    /\ errors' = 0
    /\ exc' = "none"
    /\ cause' = "none"
    /\ outcome' = "running"
    /\ result' = NoResult
    /\ stubs' = 0
    /\ statusLog' = <<>>
    /\ storeAtStart' = st
    /\ opLog' = <<>>

\* Kentucky and Massachusetts: missing credentials raise ValueError.
CheckCreds ==
    /\ pc = "creds"
    /\ IF ~creds
       THEN Throw("ValueError")
       ELSE pc' = "fetch" /\ UNCHANGED <<exc, cause, outcome, session>>
    /\ UNCHANGED <<opLog, jur, creds, existing, pageNo, rowNo, createLog, rowLog, created,
                   skipped, errors, result, stubs, statusLog, storeAtStart>>
    /\ UNCHANGED <<envVars, sideVars>>

\* The existing-key query. Pennsylvania calls get_existing_solicitations.
FetchMethod(j) ==
    IF j = "pennsylvania" THEN "get_existing_solicitations"
    ELSE "get_existing_solicitation_numbers"

FetchExisting ==
    /\ pc = "fetch"
    /\ IF ~HasMethod(jur, FetchMethod(jur))
       THEN Throw("AttributeError") /\ UNCHANGED <<existing, opLog>>
       ELSE \E resp \in QueryResponses :
              /\ existing' = GetExistingSolicitationNumbers(resp, store)
              /\ opLog' = Append(opLog, "fetch")
              /\ pc' = IF jur = "pennsylvania" THEN "rows" ELSE "setup"
              /\ UNCHANGED <<exc, cause, outcome, session>>
    /\ UNCHANGED <<jur, creds, pageNo, rowNo, createLog, rowLog, created,
                   skipped, errors, result, stubs, statusLog, storeAtStart>>
    /\ UNCHANGED <<envVars, sideVars>>

\* setup_browser (Kentucky: the start of its `with sync_playwright()` block).
SetupBrowser ==
    /\ pc = "setup"
    /\ session' = AllOpen
    /\ pc' = "nav"
    /\ UNCHANGED <<opLog, jur, creds, existing, pageNo, rowNo, createLog, rowLog, created,
                   skipped, errors, exc, cause, outcome, result, stubs,
                   statusLog, storeAtStart>>
    /\ UNCHANGED <<envVars, sideVars>>

\* The scrapers that sign in to their portal with credentials.
SignsIn(j) == j \in {"kentucky", "massachusetts"}

\* What the portal does to the login and the way to the listing.
PortalAnswers(j) ==
    IF SignsIn(j) THEN {"ok", "rejected", "error"} ELSE {"ok", "error"}

\* The scrapers that set a status filter, a page size or a sort order.
SetsFilters(j) == j \in {"kentucky", "massachusetts", "pennsylvania", "puerto_rico"}

\* Login and navigation to the listing (Pennsylvania: and the CSV export):
\* they succeed or raise; a rejected login shows as a control that never
\* appears.
Navigate ==
    /\ pc = "nav"
    /\ opLog' = opLog \o (IF SignsIn(jur) THEN <<"login">> ELSE <<>>) \o <<"navigate">>
    /\ \E ans \in PortalAnswers(jur) :
         CASE ans = "ok" ->
                /\ pc' = CASE SetsFilters(jur) -> "filter"
                            [] OTHER -> "norows"
                /\ UNCHANGED <<exc, cause, outcome, session>>
           [] ans = "rejected" -> Throw("LoginError")
           [] OTHER -> Throw("PortalError")
    /\ UNCHANGED <<jur, creds, existing, pageNo, rowNo, createLog, rowLog, created,
                   skipped, errors, result, stubs, statusLog, storeAtStart>>
    /\ UNCHANGED <<envVars, sideVars>>

\* The status filter, the page size and the sort order: each sits in a
\* try/except of its own, so a failure is printed and the run goes on.
ApplyFilters ==
    /\ pc = "filter"
    /\ \E ok \in BOOLEAN :
         opLog' = IF ok THEN opLog ELSE Append(opLog, "filter_failed")
    /\ pc' = CASE jur = "pennsylvania" -> "fetch"
                [] jur = "puerto_rico" -> "norows"
                [] OTHER -> "rows"
    /\ UNCHANGED <<jur, creds, existing, session, pageNo, rowNo, createLog, rowLog,
                   created, skipped, errors, exc, cause, outcome, result, stubs,
                   statusLog, storeAtStart>>
    /\ UNCHANGED <<envVars, sideVars>>

\* The natural key a scraper reads from row number n: Puerto Rico and
\* Virginia substitute <tag>-<today>-<n> when they find no number.
RowKey(j, row, n, now) ==
    IF j \in {"puerto_rico", "virginia"} /\ IsEmptyKey(row.key)
    THEN Key(IF j = "puerto_rico" THEN "PR" ELSE "VA", now, n)
    ELSE row.key

\* A count that takes every answered create call for a new record.
CountsEveryCall(j, resp) == resp # "exc"

\* Whether the run counts a create call as a new record: Kentucky counts
\* every call that returns, the others only a 201.
CountsAsCreated(j, resp) ==
    IF j = "kentucky" THEN resp # "exc" ELSE resp = "201"

\* create_salesforce_opportunity: the POST and the store's state after it.
StoreAfterCreate(st, k, resp) == IF resp = "201" THEN st \cup {k} ELSE st

\* The dedup gate of the row loop.
IsDuplicate(k, ex) == k \in ex

\* Whether reading a row's cells may raise: a CSV row of Pennsylvania is a
\* dict already read, a table row is read through the page.
RowReads(j) == IF j = "pennsylvania" THEN {TRUE} ELSE BOOLEAN

\* One iteration of the row loop; an exception inside it ends the iteration.
ProcessRow ==
    /\ pc = "rows"
    /\ rowNo <= Len(Listing(jur))
    /\ LET row == Listing(jur)[rowNo]
           k   == RowKey(jur, row, rowNo, today)
           cd  == CloseDateOf(jur, row.date, today)
       IN  \E readOk \in RowReads(jur) :
           IF ~readOk
           THEN /\ rowLog' = Append(rowLog, "fail")
                /\ UNCHANGED <<createLog, created, skipped, errors, store>>
           ELSE IF IsDuplicate(k, existing)
           THEN /\ rowLog' = Append(rowLog, "dup")
                /\ skipped' = IF jur = "pennsylvania" THEN skipped + 1 ELSE skipped
                /\ UNCHANGED <<createLog, created, errors, store>>
           ELSE IF /\ jur = "pennsylvania"
                   /\ cd = None
                   /\ ~HasMethod(jur, "get_default_close_date")
           THEN /\ rowLog' = Append(rowLog, "fail")
                /\ errors' = errors + 1
                /\ UNCHANGED <<createLog, created, skipped, store>>
           ELSE \E resp \in CreateResponses :
                  LET sent == IF jur = "pennsylvania" /\ cd = None
                              THEN Some(today + FallbackDays) ELSE cd
                  IN  /\ rowLog' = Append(rowLog, "sent")
                      /\ createLog' = Append(createLog,
                            [key |-> k, raw |-> row.date, closeDate |-> sent,
                             resp |-> resp])
                      /\ store' = StoreAfterCreate(store, k, resp)
                      /\ created' = IF CountsAsCreated(jur, resp)
                                    THEN created + 1 ELSE created
                      /\ errors' = IF jur = "pennsylvania" /\ resp # "201"
                                   THEN errors + 1 ELSE errors
                      /\ UNCHANGED skipped
    /\ rowNo' = rowNo + 1
    /\ UNCHANGED <<opLog, jur, creds, pc, existing, session, pageNo, exc, cause,
                   outcome, result, stubs, statusLog, storeAtStart>>
    /\ UNCHANGED <<today, portal, runNo, sideVars>>

\* Massachusetts: the next-page control is visible while pages remain.
\* On the last page the control is gone ("absent") or stays in view, greyed
\* out ("stuck").
NextControls == {"absent", "stuck"}
NextVisible(p, n, ctl) == n < Len(p) \/ ctl = "stuck"

\* next_button.click() on the control of the last page: the click times out,
\* or it returns and the page stays as it is.
LastPageClicks == {"raises", "nothing"}

\* After the last row of the page.
EndOfPage ==
    /\ pc = "rows"
    /\ rowNo > Len(Listing(jur))
    /\ IF jur = "massachusetts" /\ NextVisible(portal, pageNo, nextCtl)
       THEN \E click \in IF pageNo < Len(portal) THEN {"next"} ELSE LastPageClicks :
              IF click = "raises"
              THEN UNCHANGED <<pageNo, rowNo>> /\ pc' = "status"
              ELSE /\ pageNo < Len(portal) + MaxDeadClicks
                   /\ pageNo' = pageNo + 1
                   /\ rowNo' = 1
                   /\ pc' = "rows"
       ELSE /\ UNCHANGED <<pageNo, rowNo>>
            /\ pc' = IF jur = "pennsylvania" THEN "finally" ELSE "status"
    /\ session' = IF jur = "kentucky" THEN {} ELSE session
    /\ result' = IF jur = "pennsylvania" THEN PyNone ELSE result
    /\ UNCHANGED <<opLog, jur, creds, existing, createLog, rowLog, created, skipped, errors,
                   exc, cause, outcome, stubs, statusLog, storeAtStart>>
    /\ UNCHANGED <<envVars, sideVars>>

\* create_stub_opportunity builds its record with timedelta, a name the
\* module of BaseScraper has to hold.
StubRaises == "timedelta" \notin BaseScraperGlobals

StubResponses == {"201", "400"}

\* Puerto Rico and Virginia: no rows found is reported as a failed run.
NoRows ==
    /\ pc = "norows"
    /\ IF Len(portal[1]) > 0
       THEN /\ pc' = "rows"
            /\ UNCHANGED <<exc, cause, outcome, session, statusLog, stubs, result>>
       ELSE IF ~HasMethod(jur, "update_account_scrape_status")
       THEN Throw("AttributeError") /\ UNCHANGED <<statusLog, stubs, result>>
       ELSE IF StubRaises
       THEN /\ Throw("NameError")
            /\ statusLog' = Append(statusLog, "Failed")
            /\ UNCHANGED <<stubs, result>>
       ELSE \E resp \in StubResponses :
              /\ statusLog' = Append(statusLog, "Failed")
              /\ stubs' = IF resp = "201" THEN stubs + 1 ELSE stubs
              /\ result' = ResultFailedPR(existing)
              /\ pc' = "finally"
              /\ UNCHANGED <<exc, cause, outcome, session>>
    /\ UNCHANGED <<opLog, jur, creds, existing, pageNo, rowNo, createLog, rowLog, created,
                   skipped, errors, storeAtStart>>
    /\ UNCHANGED <<envVars, sideVars>>

\* The account-status update that ends a completed run.
UpdateStatus ==
    /\ pc = "status"
    /\ IF jur = "kentucky"
       THEN IF ~HasMethod(jur, "update_account_scrape_status")
            THEN Throw("AttributeError") /\ UNCHANGED <<statusLog, result>>
            ELSE /\ statusLog' = Append(statusLog, "Success")
                 /\ result' = PyNone
                 /\ outcome' = "returned"
                 /\ pc' = "done"
                 /\ UNCHANGED <<exc, cause, session>>
       ELSE /\ statusLog' = IF HasMethod(jur, "update_account_scrape_status")
                            THEN Append(statusLog, "Success") ELSE statusLog
            /\ result' = IF jur = "massachusetts"
                         THEN ResultMA(created, existing, pageNo)
                         ELSE ResultPR(created, existing)
            /\ pc' = "finally"
            /\ UNCHANGED <<exc, cause, outcome, session>>
    /\ UNCHANGED <<opLog, jur, creds, existing, pageNo, rowNo, createLog, rowLog, created,
                   skipped, errors, stubs, storeAtStart>>
    /\ UNCHANGED <<envVars, sideVars>>

FailureStatus(j) == IF j = "massachusetts" THEN "Error" ELSE "Failed"

\* The except clause of scrape().
Handler ==
    /\ pc = "handler"
    /\ IF jur = "kentucky"
       THEN /\ IF HasMethod(jur, "update_account_scrape_status")
               THEN statusLog' = Append(statusLog, "Failed") /\ UNCHANGED exc
               ELSE exc' = "AttributeError" /\ UNCHANGED statusLog
            /\ outcome' = "raised"
            /\ pc' = "done"
            /\ UNCHANGED <<stubs, result>>
       ELSE /\ statusLog' =
                 IF /\ jur # "pennsylvania"
                    /\ HasMethod(jur, "update_account_scrape_status")
                 THEN Append(statusLog, FailureStatus(jur)) ELSE statusLog
            /\ IF StubRaises
               THEN exc' = "NameError" /\ UNCHANGED <<stubs, result>>
               ELSE \E resp \in StubResponses :
                      /\ stubs' = IF resp = "201" THEN stubs + 1 ELSE stubs
                      /\ exc' = IF jur = "pennsylvania" THEN "none" ELSE exc
                      /\ result' = IF jur = "pennsylvania" THEN PyNone ELSE result
            /\ pc' = "finally"
            /\ UNCHANGED outcome
    /\ UNCHANGED <<opLog, jur, creds, existing, session, pageNo, rowNo, createLog,
                   rowLog, created, skipped, errors, cause, storeAtStart>>
    /\ UNCHANGED <<envVars, sideVars>>

\* The method the finally clause calls.
FinallyMethod(j) == IF j = "pennsylvania" THEN "close_browser" ELSE "cleanup"

\* The finally clause of scrape(), and the exit of scrape().
Finally ==
    /\ pc = "finally"
    /\ IF HasMethod(jur, FinallyMethod(jur))
       THEN /\ session' = Cleanup(session)
            /\ outcome' = IF exc = "none" THEN "returned" ELSE "raised"
            /\ UNCHANGED exc
       ELSE /\ exc' = "AttributeError"
            /\ outcome' = "raised"
            /\ UNCHANGED session
    /\ pc' = "done"
    /\ UNCHANGED <<opLog, jur, creds, existing, pageNo, rowNo, createLog, rowLog, created,
                   skipped, errors, cause, result, stubs, statusLog, storeAtStart>>
    /\ UNCHANGED <<envVars, sideVars>>

\* The steps of the scrapers app.py registers; the no-rows test belongs to
\* Puerto Rico and Virginia.
RegisteredStep ==
    \/ CheckCreds
    \/ FetchExisting
    \/ SetupBrowser
    \/ Navigate
    \/ ApplyFilters
    \/ ProcessRow
    \/ EndOfPage
    \/ UpdateStatus
    \/ Handler
    \/ Finally

ScrapeStep == RegisteredStep \/ NoRows

\* ------------------------------------------------ the trigger service
\* SCRAPERS: the registry of src/app.py.
SCRAPERS == {"kentucky", "massachusetts", "pennsylvania"}

\* The names a caller may ask for: the registered ones and one that is not.
RequestNames == SCRAPERS \cup {"texas"}

\* A gate that lets every request through.
AcceptAnyKey(keyOk) == TRUE

\* verify_api_key: the X-API-Key header against API_KEY.
VerifyApiKey(keyOk) == keyOk

\* The body of a batch request: no JSON (get_json() gives nothing to call
\* .get on), or a dict whose 'jurisdictions' is a list, [] when left out.
NoBody == [json |-> FALSE, jurisdictions |-> <<>>]
Body(js) == [json |-> TRUE, jurisdictions |-> js]
BatchBodies ==
    {NoBody} \cup {Body(js) : js \in UNION {[1..n -> RequestNames] : n \in 0..MaxBatch}}

NoRequest ==
    [route |-> "none", keyOk |-> FALSE, target |-> "", body |-> NoBody, no |-> 0]

\* `except Exception`: every exception a scraper raises derives from Exception.
ExceptNothing(e) == FALSE
ExceptException(e) == TRUE

\* A response: the status code and the JSON body; kind "unhandled" stands
\* for an exception that left the handler.
NoResponse ==
    [code |-> 0, kind |-> "none", jurisdiction |-> "", entry |-> NoResult,
     results |-> <<>>, processed |-> 0, totalNew |-> 0, totalFound |-> 0,
     error |-> "", scrapers |-> {}]
Unauthorized == [NoResponse EXCEPT !.code = 401, !.kind = "error", !.error = "Unauthorized"]
NotFound(j) ==
    [NoResponse EXCEPT !.code = 404, !.kind = "error", !.jurisdiction = j,
                       !.error = "Scraper not found", !.scrapers = SCRAPERS]
Healthy == [NoResponse EXCEPT !.code = 200, !.kind = "health", !.scrapers = SCRAPERS]
ScraperList == [NoResponse EXCEPT !.code = 200, !.kind = "list", !.scrapers = SCRAPERS]
NoJurisdictions ==
    [NoResponse EXCEPT !.code = 400, !.kind = "error",
                       !.error = "No jurisdictions specified"]
Unhandled(e) == [NoResponse EXCEPT !.code = 500, !.kind = "unhandled", !.error = e]
SingleOk(j, r) ==
    [NoResponse EXCEPT !.code = 200, !.kind = "single", !.jurisdiction = j, !.entry = r]
SingleError(j, e) ==
    IF ExceptException(e)
    THEN [NoResponse EXCEPT !.code = 500, !.kind = "error", !.jurisdiction = j, !.error = e]
    ELSE Unhandled(e)
BatchError(e) ==
    IF ExceptException(e)
    THEN [NoResponse EXCEPT !.code = 500, !.kind = "error", !.error = e]
    ELSE Unhandled(e)

\* The entries scrape_batch writes itself.
FailureEntry(e) ==
    [NoResult EXCEPT !.kind = "dict", !.keys = {"success", "error"},
                     !.success = "False", !.error = e]
NotFoundEntry == FailureEntry("Scraper not found")

\* results[j] = e on a dict kept as a sequence of items in insertion order.
DictSet(d, j, e) ==
    IF \E i \in 1..Len(d) : d[i].name = j
    THEN [i \in 1..Len(d) |-> IF d[i].name = j THEN [name |-> j, entry |-> e] ELSE d[i]]
    ELSE Append(d, [name |-> j, entry |-> e])

\* r.get('success') taken as a condition, and r.get(key, 0).
Truthy(r) == r.success = "True"
GetNewCreated(r) == IF "new_created" \in r.keys THEN r.new_created ELSE 0
GetTotalFound(r) == IF "total_found" \in r.keys THEN r.total_found ELSE 0

RECURSIVE TotalNew(_)
TotalNew(d) ==
    IF d = <<>> THEN 0
    ELSE (IF Truthy(Head(d).entry) THEN GetNewCreated(Head(d).entry) ELSE 0)
         + TotalNew(Tail(d))

RECURSIVE TotalFound(_)
TotalFound(d) ==
    IF d = <<>> THEN 0
    ELSE (IF Truthy(Head(d).entry) THEN GetTotalFound(Head(d).entry) ELSE 0)
         + TotalFound(Tail(d))

\* The batch response: r.get on an entry that is None raises, and the outer
\* except clause answers for the whole batch.
BatchResponse(d) ==
    IF \E i \in 1..Len(d) : d[i].entry.kind # "dict"
    THEN BatchError("AttributeError")
    ELSE [NoResponse EXCEPT !.code = 200, !.kind = "batch", !.results = d,
                            !.processed = Len(d), !.totalNew = TotalNew(d),
                            !.totalFound = TotalFound(d)]

\* What a finished run leaves for the handler to see.
RunEntry ==
    [jur |-> jur, cause |-> cause, exc |-> exc, outcome |-> outcome,
     stubs |-> stubs, result |-> result, session |-> session]

\* A handler answers without a scraper run.
Answer(r) ==
    /\ response' = r
    /\ apc' = "idle"
    /\ UNCHANGED <<runVars, store>>

\* GET /health: no key is asked for.
HealthRoute ==
    /\ apc = "idle"
    /\ req.no < MaxRequests
    /\ \E keyOk \in BOOLEAN :
         req' = [NoRequest EXCEPT !.route = "health", !.keyOk = keyOk,
                                  !.no = req.no + 1]
    /\ Answer(Healthy)
    /\ UNCHANGED <<idx, results, runLog, accounts>>
    /\ UNCHANGED <<today, portal, runNo, authVars, mapVars, fieldVars, schedVars, pickVars, pageVars, bgVars>>

\* GET /scrapers.
ListScrapers ==
    /\ apc = "idle"
    /\ req.no < MaxRequests
    /\ \E keyOk \in BOOLEAN :
         /\ req' = [NoRequest EXCEPT !.route = "list", !.keyOk = keyOk,
                                      !.no = req.no + 1]
         /\ Answer(IF ~VerifyApiKey(keyOk) THEN Unauthorized ELSE ScraperList)
    /\ UNCHANGED <<idx, results, runLog, accounts>>
    /\ UNCHANGED <<today, portal, runNo, authVars, mapVars, fieldVars, schedVars, pickVars, pageVars, bgVars>>

\* POST /scrape/<jurisdiction>, up to the call of scrape().
ScrapeRoute ==
    /\ apc = "idle"
    /\ req.no < MaxRequests
    /\ \E keyOk \in BOOLEAN, j \in RequestNames, c \in BOOLEAN :
         /\ req' = [NoRequest EXCEPT !.route = "single", !.keyOk = keyOk,
                                      !.target = j, !.no = req.no + 1]
         /\ IF ~VerifyApiKey(keyOk) THEN Answer(Unauthorized)
            ELSE IF j \notin SCRAPERS THEN Answer(NotFound(j))
            ELSE /\ BeginScrape(j, c, accounts[j])
                 /\ store' = accounts[j]
                 /\ apc' = "single"
                 /\ response' = NoResponse
    /\ runLog' = <<>>
    /\ UNCHANGED <<idx, results, accounts>>
    /\ UNCHANGED <<today, portal, runNo, authVars, mapVars, fieldVars, schedVars, pickVars, pageVars, bgVars>>

\* POST /scrape/<jurisdiction>, from the end of scrape() on: **result of a
\* result that is no dict raises TypeError inside the try block.
ScrapeReturn ==
    /\ apc = "single"
    /\ pc = "done"
    /\ response' = IF outcome = "raised" THEN SingleError(jur, exc)
                   ELSE IF result.kind # "dict" THEN SingleError(jur, "TypeError")
                   ELSE SingleOk(jur, result)
    /\ apc' = "idle"
    /\ runLog' = Append(runLog, RunEntry)
    /\ accounts' = [accounts EXCEPT ![jur] = store]
    /\ UNCHANGED <<req, idx, results>>
    /\ UNCHANGED <<envVars, runVars, authVars, mapVars, fieldVars, schedVars, pickVars, pageVars, bgVars>>

\* POST /scrape/batch, up to the loop over the jurisdictions.
ScrapeBatchRoute ==
    /\ apc = "idle"
    /\ req.no < MaxRequests
    /\ \E keyOk \in BOOLEAN, body \in BatchBodies :
         /\ req' = [NoRequest EXCEPT !.route = "batch", !.keyOk = keyOk,
                                      !.body = body, !.no = req.no + 1]
         /\ IF ~VerifyApiKey(keyOk) THEN response' = Unauthorized /\ apc' = "idle"
            ELSE IF ~body.json THEN response' = BatchError("AttributeError") /\ apc' = "idle"
            ELSE IF body.jurisdictions = <<>> THEN response' = NoJurisdictions /\ apc' = "idle"
            ELSE response' = NoResponse /\ apc' = "batch"
    /\ idx' = 1
    /\ results' = <<>>
    /\ runLog' = <<>>
    /\ UNCHANGED accounts
    /\ UNCHANGED <<envVars, runVars, authVars, mapVars, fieldVars, schedVars, pickVars, pageVars, bgVars>>

\* One jurisdiction of the batch, up to the call of scrape().
BatchStep ==
    /\ apc = "batch"
    /\ idx <= Len(req.body.jurisdictions)
    /\ LET j == req.body.jurisdictions[idx]
       IN  IF j \notin SCRAPERS
           THEN /\ results' = DictSet(results, j, NotFoundEntry)
                /\ idx' = idx + 1
                /\ UNCHANGED <<apc, runVars, store>>
           ELSE /\ \E c \in BOOLEAN : BeginScrape(j, c, accounts[j])
                /\ store' = accounts[j]
                /\ apc' = "batchrun"
                /\ UNCHANGED <<results, idx>>
    /\ UNCHANGED <<req, response, runLog, accounts>>
    /\ UNCHANGED <<today, portal, runNo, authVars, mapVars, fieldVars, schedVars, pickVars, pageVars, bgVars>>

\* One jurisdiction of the batch, from the end of scrape() on; an exception
\* the inner except clause does not take ends the loop in the outer one.
BatchCollect ==
    /\ apc = "batchrun"
    /\ pc = "done"
    /\ IF outcome = "raised" /\ ~ExceptException(exc)
       THEN /\ response' = BatchError(exc)
            /\ apc' = "idle"
            /\ UNCHANGED <<results, idx>>
       ELSE /\ results' = DictSet(results, jur,
                                  IF outcome = "raised" THEN FailureEntry(exc) ELSE result)
            /\ idx' = idx + 1
            /\ apc' = "batch"
            /\ UNCHANGED response
    /\ runLog' = Append(runLog, RunEntry)
    /\ accounts' = [accounts EXCEPT ![jur] = store]
    /\ UNCHANGED req
    /\ UNCHANGED <<envVars, runVars, authVars, mapVars, fieldVars, schedVars, pickVars, pageVars, bgVars>>

\* The totals and the response of the batch.
BatchRespond ==
    /\ apc = "batch"
    /\ idx > Len(req.body.jurisdictions)
    /\ response' = BatchResponse(results)
    /\ apc' = "idle"
    /\ UNCHANGED <<req, idx, results, runLog, accounts>>
    /\ UNCHANGED <<envVars, runVars, authVars, mapVars, fieldVars, schedVars, pickVars, pageVars, bgVars>>

TriggerStep ==
    \/ HealthRoute
    \/ ListScrapers
    \/ ScrapeRoute
    \/ ScrapeReturn
    \/ ScrapeBatchRoute
    \/ BatchStep
    \/ BatchCollect
    \/ BatchRespond

\* ------------------------------------------------------ SalesforceAuth
\* Time is counted in ticks of ten minutes.
TokenLifetime == 12    \* an access token lives two hours
RefreshAfter == 9      \* timedelta(hours=1, minutes=30)

\* The environment of the process: oauth stands for SF_INSTANCE_URL,
\* SF_CONSUMER_KEY and SF_CONSUMER_SECRET all being set.
AuthEnvs == [oauth : BOOLEAN, refresh : BOOLEAN, legacy : BOOLEAN]

\* A token: the legacy API key, or an access token and when it was issued.
LegacyKey == [kind |-> "legacy", issued |-> 0]
AccessToken(t) == [kind |-> "oauth", issued |-> t]

NoAuth ==
    [state |-> "none", env |-> [oauth |-> FALSE, refresh |-> FALSE, legacy |-> FALSE],
     access_token |-> None, token_expires_at |-> None, warned |-> FALSE]

\* all([instance_url, consumer_key, consumer_secret, refresh_token]).
AllOAuth(env) == env.oauth /\ env.refresh

\* SalesforceAuth.__init__: ValueError without the OAuth settings and
\* without a legacy key; with a legacy key the warning is printed.
NewAuth(env) ==
    [NoAuth EXCEPT !.env = env,
                   !.state = IF ~AllOAuth(env) /\ ~env.legacy
                             THEN "raised" ELSE "ready",
                   !.warned = ~AllOAuth(env) /\ env.legacy]

\* The answers of the token endpoint: a token, an HTTP error, no connection,
\* a body without 'access_token'.
TokenResponses == {"200", "400", "conn", "nokey"}

\* token_expires_at as set by a refresh at time now.
ExpiresAtLifetime(now) == now + TokenLifetime
ExpiresAt(now) == now + RefreshAfter

CallResult(a, how, value, contacted, error) ==
    [auth |-> a, outcome |-> how, value |-> value, contacted |-> contacted,
     error |-> error]

\* A failed exchange answered with the token held in the cache.
RefreshFallsBack(a, now, resp) ==
    IF resp = "200"
    THEN CallResult([a EXCEPT !.access_token = Some(AccessToken(now)),
                              !.token_expires_at = Some(ExpiresAt(now))],
                    "refreshed", Some(AccessToken(now)), TRUE, "")
    ELSE CallResult(a, "cached", a.access_token, TRUE, "")

\* SalesforceAuth._refresh_access_token.
RefreshAccessToken(a, now, resp) ==
    CASE resp = "200" ->
           CallResult([a EXCEPT !.access_token = Some(AccessToken(now)),
                                !.token_expires_at = Some(ExpiresAt(now))],
                      "refreshed", Some(AccessToken(now)), TRUE, "")
      [] resp = "nokey" -> CallResult(a, "raised", None, TRUE, "KeyError")
      [] OTHER -> CallResult(a, "raised", None, TRUE, "RequestException")

UsesLegacyKey(a) == a.env.legacy /\ ~a.env.refresh

TokenValid(a, now) ==
    /\ a.access_token # None
    /\ a.token_expires_at # None
    /\ now < a.token_expires_at[1]

\* SalesforceAuth.get_access_token.
GetAccessTokenOf(a, now, resp) ==
    IF UsesLegacyKey(a) THEN CallResult(a, "legacy", Some(LegacyKey), FALSE, "")
    ELSE IF TokenValid(a, now) THEN CallResult(a, "cached", a.access_token, FALSE, "")
    ELSE RefreshAccessToken(a, now, resp)

NoCall ==
    [at |-> 0, outcome |-> "none", value |-> None, contacted |-> FALSE,
     error |-> "", before |-> NoAuth, prev |-> "none"]

Construct ==
    /\ auth.state = "none"
    /\ \E env \in AuthEnvs : auth' = NewAuth(env)
    /\ UNCHANGED <<clock, lastCall, thr, posts>>
    /\ UNCHANGED <<envVars, runVars, apiVars, mapVars, fieldVars, schedVars, pickVars, pageVars, bgVars>>

GetAccessToken ==
    /\ auth.state = "ready"
    /\ \E resp \in TokenResponses :
         LET r == GetAccessTokenOf(auth, clock, resp)
         IN  /\ auth' = r.auth
             /\ lastCall' = [at |-> clock, outcome |-> r.outcome, value |-> r.value,
                             contacted |-> r.contacted, error |-> r.error,
                             before |-> auth, prev |-> lastCall.outcome]
    /\ UNCHANGED <<clock, thr, posts>>
    /\ UNCHANGED <<envVars, runVars, apiVars, mapVars, fieldVars, schedVars, pickVars, pageVars, bgVars>>

\* Time passes.
Tick ==
    /\ clock < MaxClock
    /\ clock' = clock + 1
    /\ UNCHANGED <<auth, lastCall, thr, posts>>
    /\ UNCHANGED <<envVars, runVars, apiVars, mapVars, fieldVars, schedVars, pickVars, pageVars, bgVars>>

AuthStep == Construct \/ GetAccessToken \/ Tick

\* Threads sharing one SalesforceAuth. get_access_token holds no lock: a
\* thread reads the cache, and on a miss sends its POST and waits for the
\* answer while the other thread runs.
Threads == {1, 2}
IdleThread == [pc |-> "idle", value |-> None, calls |-> 0]

\* Lines 37-46: the legacy key, the cached token, or the way to a refresh.
ThreadCall(t) ==
    /\ auth.state = "ready"
    /\ thr[t].pc \in {"idle", "returned", "raised"}
    /\ thr[t].calls < MaxCalls
    /\ LET me == [thr[t] EXCEPT !.calls = @ + 1]
       IN  IF UsesLegacyKey(auth)
           THEN /\ thr' = [thr EXCEPT ![t] = [me EXCEPT !.pc = "returned",
                                                        !.value = Some(LegacyKey)]]
                /\ UNCHANGED posts
           ELSE IF TokenValid(auth, clock)
           THEN /\ thr' = [thr EXCEPT ![t] = [me EXCEPT !.pc = "returned",
                                                        !.value = auth.access_token]]
                /\ UNCHANGED posts
           ELSE /\ thr' = [thr EXCEPT ![t] = [me EXCEPT !.pc = "post",
                                                        !.value = None]]
                /\ posts' = posts + 1
    /\ UNCHANGED <<clock, auth, lastCall>>
    /\ UNCHANGED <<envVars, runVars, apiVars, mapVars, fieldVars, schedVars, pickVars, pageVars, bgVars>>

\* Lines 60-77: the answer to the thread's POST arrives.
ThreadAnswer(t) ==
    /\ thr[t].pc = "post"
    /\ \E resp \in TokenResponses :
         LET r == RefreshAccessToken(auth, clock, resp)
         IN  /\ auth' = r.auth
             /\ thr' = [thr EXCEPT ![t] = [@ EXCEPT
                          !.pc = IF r.outcome = "raised" THEN "raised" ELSE "returned",
                          !.value = r.value]]
    /\ UNCHANGED <<clock, lastCall, posts>>
    /\ UNCHANGED <<envVars, runVars, apiVars, mapVars, fieldVars, schedVars, pickVars, pageVars, bgVars>>

ThreadStep == \E t \in Threads : ThreadCall(t) \/ ThreadAnswer(t)

\* ---------------------------------------------------- the field mappers
\* A text is a sequence of characters; a raw value is None or Some(text).
UpperCase == <<"A", "B", "C", "D", "E", "F", "G", "H", "I", "J", "K", "L", "M">>
             \o <<"N", "O", "P", "Q", "R", "S", "T", "U", "V", "W", "X", "Y", "Z">>
LowerCase == <<"a", "b", "c", "d", "e", "f", "g", "h", "i", "j", "k", "l", "m">>
             \o <<"n", "o", "p", "q", "r", "s", "t", "u", "v", "w", "x", "y", "z">>

\* str.lower().
LowerChar(c) ==
    IF \E i \in 1..Len(UpperCase) : UpperCase[i] = c
    THEN LowerCase[CHOOSE i \in 1..Len(UpperCase) : UpperCase[i] = c]
    ELSE c
Lower(t) == [i \in 1..Len(t) |-> LowerChar(t[i])]

\* `sub in t` on strings.
Contains(sub, t) ==
    \E i \in 0..(Len(t) - Len(sub)) : SubSeq(t, i + 1, i + Len(sub)) = sub

\* `not raw`: None and the empty string.
Falsy(raw) == raw = None \/ raw = Some(<<>>)

\* A loop that keeps the value of the last key found in t.
RECURSIVE LastMatch(_, _)
LastMatch(mapping, t) ==
    IF mapping = <<>> THEN "Other"
    ELSE IF LastMatch(Tail(mapping), t) # "Other" THEN LastMatch(Tail(mapping), t)
    ELSE IF Contains(Head(mapping)[1], t) THEN Head(mapping)[2]
    ELSE "Other"

\* The loop over mapping.items(): the value of the first key found in t.
RECURSIVE FirstMatch(_, _)
FirstMatch(mapping, t) ==
    IF mapping = <<>> THEN "Other"
    ELSE IF Contains(Head(mapping)[1], t) THEN Head(mapping)[2]
    ELSE FirstMatch(Tail(mapping), t)

LowerKeys(mapping) ==
    [i \in 1..Len(mapping) |-> <<Lower(mapping[i][1]), mapping[i][2]>>]

Returned(v) == [outcome |-> "returned", value |-> v, error |-> ""]
Raised(e) == [outcome |-> "raised", value |-> "", error |-> e]

\* BaseScraper.map_solicitation_type and BaseScraper.map_category.
TypeMapping ==
    << <<<<"r", "f", "p">>, "RFP - Request for Proposal">>,
       <<<<"r", "f", "b">>, "RFB - Request for Bids">>,
       <<<<"r", "f", "q">>, "RFQ - Request for Quote">>,
       <<<<"r", "f", "i">>, "RFI - Request for Information">>,
       <<<<"i", "f", "b">>, "IFB - Invitation for Bid">>,
       <<<<"r", "f", "t">>, "RFT - Request for Tender">> >>

map_solicitation_type(raw) ==
    IF Falsy(raw) THEN Returned("Other")
    ELSE Returned(FirstMatch(TypeMapping, Lower(raw[1])))

CategoryMapping ==
    << <<<<"l", "e", "g", "a", "l">>, "Legal Services">>,
       <<<<"c", "o", "n", "s", "t", "r", "u", "c", "t", "i", "o", "n">>, "Construction">>,
       <<<<"e", "q", "u", "i", "p", "m", "e", "n", "t">>, "Equipment">>,
       <<<<"t", "e", "c", "h", "n", "o", "l", "o", "g", "y">>, "Technology/IT Services">>,
       <<<<"i", "t", " ", "s", "e", "r", "v", "i", "c", "e", "s">>, "Technology/IT Services">>,
       <<<<"p", "r", "o", "f", "e", "s", "s", "i", "o", "n", "a", "l">>, "Professional Services">>,
       <<<<"c", "o", "n", "s", "u", "l", "t", "i", "n", "g">>, "Consulting">>,
       <<<<"s", "u", "p", "p", "l", "i", "e", "s">>, "Supplies">>,
       <<<<"m", "a", "i", "n", "t", "e", "n", "a", "n", "c", "e">>, "Maintenance/Repair">>,
       <<<<"h", "e", "a", "l", "t", "h", "c", "a", "r", "e">>, "Healthcare">>,
       <<<<"m", "e", "d", "i", "c", "a", "l">>, "Healthcare">> >>

map_category(raw) ==
    IF Falsy(raw) THEN Returned("Other")
    ELSE Returned(FirstMatch(CategoryMapping, Lower(raw[1])))

\* The functions of scripts/ky_scraper.py: its map_solicitation_type calls
\* raw_type.lower() on whatever it is given.
KyTypeMapping ==
    << <<<<"R", "F", "P">>, "RFP - Request for Proposal">>,
       <<<<"R", "F", "B">>, "RFB - Request for Bids">>,
       <<<<"R", "F", "Q">>, "RFQ - Request for Quote">>,
       <<<<"R", "F", "I">>, "RFI - Request for Information">>,
       <<<<"I", "F", "B">>, "IFB - Invitation for Bid">> >>

ky_map_solicitation_type(raw) ==
    IF raw = None THEN Raised("AttributeError")
    ELSE Returned(FirstMatch(LowerKeys(KyTypeMapping), Lower(raw[1])))

ky_map_category(raw) ==
    IF Falsy(raw) THEN Returned("Other")
    ELSE Returned(FirstMatch(CategoryMapping, Lower(raw[1])))

\* Raw values: every text of at most MaxLen characters for a type, and
\* texts put together from at most MaxPieces pieces for a category.
TypeAlphabet == {"r", "f", "p", "t", "R", "P", "x"}
Texts(alphabet, n) == UNION {[1..m -> alphabet] : m \in 0..n}
TypeInputs == {None} \cup {Some(t) : t \in Texts(TypeAlphabet, MaxLen)}

CategoryPieces ==
    { <<"l", "e", "g", "a", "l">>,
      <<"C", "o", "n", "s", "t", "r", "u", "c", "t", "i", "o", "n">>,
      <<"I", "T", " ", "S", "e", "r", "v", "i", "c", "e", "s">>,
      <<"i", "t">>,
      <<" ", "s", "e", "r", "v", "i", "c", "e", "s">>,
      <<"M", "E", "D", "I", "C", "A", "L">>,
      <<"m", "i", "s", "c">>,
      <<"h", "e", "a", "l", "t", "h">>,
      <<"c", "a", "r", "e">> }
RECURSIVE Joined(_)
Joined(n) ==
    IF n = 0 THEN {<<>>}
    ELSE Joined(n - 1) \cup {a \o b : a \in Joined(n - 1), b \in CategoryPieces}
CategoryInputs == {None} \cup {Some(t) : t \in Joined(MaxPieces)}

Mappers == {"BaseScraper", "ky_scraper"}

\* A call about to be made: the mapper and the raw value it is given.
MapInput(impl, raw) == [fn |-> "none", impl |-> impl, raw |-> raw, res |-> Returned("")]
NoMapCall == MapInput("", None)

MapSolicitationType ==
    /\ mapCall.fn = "none"
    /\ mapCall.impl \in Mappers
    /\ mapCall.raw \in TypeInputs
    /\ mapCall' = [mapCall EXCEPT
                     !.fn = "map_solicitation_type",
                     !.res = IF mapCall.impl = "BaseScraper"
                             THEN map_solicitation_type(mapCall.raw)
                             ELSE ky_map_solicitation_type(mapCall.raw)]
    /\ UNCHANGED <<envVars, runVars, apiVars, authVars, fieldVars, schedVars, pickVars, pageVars, bgVars>>

MapCategory ==
    /\ mapCall.fn = "none"
    /\ mapCall.impl \in Mappers
    /\ mapCall.raw \in CategoryInputs
    /\ mapCall' = [mapCall EXCEPT
                     !.fn = "map_category",
                     !.res = IF mapCall.impl = "BaseScraper"
                             THEN map_category(mapCall.raw)
                             ELSE ky_map_category(mapCall.raw)]
    /\ UNCHANGED <<envVars, runVars, apiVars, authVars, fieldVars, schedVars, pickVars, pageVars, bgVars>>

MapStep == MapSolicitationType \/ MapCategory

\* ------------------------------------------------- the fields of a record
\* Texts are followed by their length: text[:n] keeps at most n characters
\* and an f-string adds the lengths of its parts.
Slice(len, n) == IF len < n THEN len ELSE n

NameLimit == 120           \* description_raw[:120]
PaNameLimit == 80          \* title[:80]
MessageLimit == 255        \* str(e)[:255]
StubUrlLimit == 50         \* portal_url[:50]
StubPrefix == 25           \* 'Manual Review Required - '
Separator == 3             \* ' - '
ProcurementPrefix == 17    \* 'PR Procurement - ', 'VA Procurement - '
VirginiaPrefix == 21       \* 'Virginia Opportunity '
NumberCeiling == 50        \* len(text) < 50: reasonable length for a number
TitleFloor == 10           \* len(title) < 10, len(text) > 10
SyntheticLen == 13         \* 'PR-20261101-1'

\* The solicitation number a scraper keeps from a cell of key characters:
\* Puerto Rico and Virginia drop a text of 50 characters or more and make
\* up a number.
NumberLen(j, key) ==
    IF j \in {"puerto_rico", "virginia"}
    THEN IF key > 0 /\ key < NumberCeiling THEN key ELSE SyntheticLen
    ELSE key

\* The 'Name' of the record built from a row: desc characters of title or
\* description, org characters of organization, key characters of number.
OpportunityName(j, desc, org, key) ==
    CASE j = "kentucky" -> Slice(desc, NameLimit)
      [] j = "massachusetts" ->
           IF desc > 0 THEN Slice(desc, NameLimit) ELSE org + Separator + key
      [] j = "pennsylvania" -> Slice(IF desc > 0 THEN desc ELSE key, PaNameLimit)
      [] j = "puerto_rico" ->
           IF desc > 0 THEN Slice(desc, NameLimit)
           ELSE ProcurementPrefix + NumberLen(j, key)
      [] OTHER ->
           LET title == IF desc < TitleFloor
                        THEN VirginiaPrefix + NumberLen(j, key) ELSE desc
           IN  Slice(title, NameLimit)

\* The 'Name' of a stub record for a portal address of url characters.
StubName(url) == StubPrefix + Slice(url, StubUrlLimit)

\* The message the handler of scrape() hands to the status update for an
\* exception whose text has err characters; Pennsylvania makes no such call.
StatusScrapers == Jurisdictions \ {"pennsylvania"}
StatusMessage(j, err) ==
    IF j = "kentucky" THEN err ELSE Slice(err, MessageLimit)

TextLens == {0, 1} \cup ((NameLimit - 1)..(NameLimit + 1))
                   \cup ((MessageLimit - 1)..MaxText)
KeyLens == {0, 8, NumberCeiling}
UrlLens == {StubUrlLimit - 1, StubUrlLimit + 1}

FieldInput(j, desc, org, key, err, url) ==
    [op |-> "none", j |-> j, desc |-> desc, org |-> org, key |-> key,
     err |-> err, url |-> url, name |-> 0, message |-> 0]
NoFields == FieldInput("none", 0, 0, 0, 0, 0)

BuildOpportunity ==
    /\ fields.op = "none"
    /\ fields.j \in Jurisdictions
    /\ fields' = [fields EXCEPT
                    !.op = "create",
                    !.name = OpportunityName(fields.j, fields.desc, fields.org,
                                             fields.key)]
    /\ UNCHANGED <<envVars, runVars, apiVars, authVars, mapVars, schedVars, pickVars, pageVars, bgVars>>

BuildStub ==
    /\ fields.op = "none"
    /\ fields.j \in Jurisdictions
    /\ fields' = [fields EXCEPT !.op = "stub", !.name = StubName(fields.url)]
    /\ UNCHANGED <<envVars, runVars, apiVars, authVars, mapVars, schedVars, pickVars, pageVars, bgVars>>

BuildStatus ==
    /\ fields.op = "none"
    /\ fields.j \in StatusScrapers
    /\ fields' = [fields EXCEPT
                    !.op = "status",
                    !.message = StatusMessage(fields.j, fields.err)]
    /\ UNCHANGED <<envVars, runVars, apiVars, authVars, mapVars, schedVars, pickVars, pageVars, bgVars>>

FieldStep == BuildOpportunity \/ BuildStub \/ BuildStatus

\* ------------------------------------------- src/scripts/ky_scraper.py
\* main(): the Kentucky scraper as a script of its own. Everything after
\* setup_driver() runs in one try block whose except clause returns
\* {'success': False, 'error': ...} and whose finally clause quits the driver.
ScriptResult(total, new) ==
    [NoResult EXCEPT !.kind = "dict",
                     !.keys = {"success", "total_found", "new_created", "opportunities"},
                     !.success = "True", !.total_found = total, !.new_created = new]

ScriptFailed(e) ==
    [NoResult EXCEPT !.kind = "dict", !.keys = {"success", "error"},
                     !.success = "False", !.error = e]

\* An exception e inside the try block of main().
ScriptRaise(e) ==
    /\ exc' = e
    /\ cause' = e
    /\ result' = ScriptFailed(e)
    /\ pc' = "s_finally"

\* parse_closing_date: dateutil's parser, None when it raises.
ScriptCloseDate(d) == IF d.fmt \in {"empty", "garbage"} THEN None ELSE Some(d.day)

ScriptMain ==
    /\ pc = "idle"
    /\ runNo = 0
    /\ runNo' = 1
    /\ pc' = "s_fetch"
    /\ session' = {"driver"}
    /\ outcome' = "running"
    /\ storeAtStart' = store
    /\ UNCHANGED <<jur, creds, existing, pageNo, rowNo, createLog, rowLog, created,
                   skipped, errors, exc, cause, result, stubs, statusLog, opLog>>
    /\ UNCHANGED <<today, portal, store, sideVars>>

ScriptFetch ==
    /\ pc = "s_fetch"
    /\ \E resp \in QueryResponses \cup {"exc"} :
         IF resp = "exc"
         THEN ScriptRaise("RequestException") /\ UNCHANGED <<existing, opLog>>
         ELSE /\ existing' = GetExistingSolicitationNumbers(resp, store)
              /\ opLog' = Append(opLog, "fetch")
              /\ pc' = "s_login"
              /\ UNCHANGED <<exc, cause, result>>
    /\ UNCHANGED <<jur, creds, session, pageNo, rowNo, createLog, rowLog, created,
                   skipped, errors, outcome, stubs, statusLog, storeAtStart>>
    /\ UNCHANGED <<envVars, sideVars>>

\* login(driver, wait) and go_to_published_solicitations(driver, wait).
ScriptLogin ==
    /\ pc = "s_login"
    /\ opLog' = Append(opLog, "login")
    /\ \E ok \in BOOLEAN :
         IF ok THEN pc' = "s_nav" /\ UNCHANGED <<exc, cause, result>>
         ELSE ScriptRaise("LoginError")
    /\ UNCHANGED <<jur, creds, existing, session, pageNo, rowNo, createLog, rowLog,
                   created, skipped, errors, outcome, stubs, statusLog, storeAtStart>>
    /\ UNCHANGED <<envVars, sideVars>>

ScriptNavigate ==
    /\ pc = "s_nav"
    /\ opLog' = Append(opLog, "navigate")
    /\ \E ok \in BOOLEAN :
         IF ok THEN pc' = "s_sort" /\ UNCHANGED <<exc, cause, result>>
         ELSE ScriptRaise("PortalError")
    /\ UNCHANGED <<jur, creds, existing, session, pageNo, rowNo, createLog, rowLog,
                   created, skipped, errors, outcome, stubs, statusLog, storeAtStart>>
    /\ UNCHANGED <<envVars, sideVars>>

\* sort_by_closing_date(driver), called bare inside the try block of main():
\* find_element raises when the column header is not found.
SortByClosingDate(ok) ==
    IF ok
    THEN pc' = "s_rows" /\ UNCHANGED <<exc, cause, result, opLog>>
    ELSE opLog' = Append(opLog, "sort_failed") /\ ScriptRaise("SortError")

ScriptSort ==
    /\ pc = "s_sort"
    /\ \E ok \in BOOLEAN : SortByClosingDate(ok)
    /\ UNCHANGED <<jur, creds, existing, session, pageNo, rowNo, createLog, rowLog,
                   created, skipped, errors, outcome, stubs, statusLog, storeAtStart>>
    /\ UNCHANGED <<envVars, sideVars>>

\* One link of the loop: scrape_solicitation_detail keeps its own errors in
\* data['error'], and the record built from such data hands None to
\* map_solicitation_type, whose raw_type.lower() raises.
ScriptRow ==
    /\ pc = "s_rows"
    /\ rowNo <= Len(portal[1])
    /\ LET row == portal[1][rowNo]
       IN  \E readOk \in BOOLEAN :
           IF ~readOk
           THEN /\ rowLog' = Append(rowLog, "fail")
                /\ ScriptRaise("AttributeError")
                /\ UNCHANGED <<createLog, created, store>>
           ELSE IF IsDuplicate(row.key, existing)
           THEN /\ rowLog' = Append(rowLog, "dup")
                /\ UNCHANGED <<createLog, created, store, exc, cause, result, pc>>
           ELSE \E resp \in CreateResponses :
                  /\ rowLog' = Append(rowLog, "sent")
                  /\ createLog' = Append(createLog,
                        [key |-> row.key, raw |-> row.date,
                         closeDate |-> ScriptCloseDate(row.date), resp |-> resp])
                  /\ store' = StoreAfterCreate(store, row.key, resp)
                  /\ created' = IF resp = "201" THEN created + 1 ELSE created
                  /\ IF resp = "exc" THEN ScriptRaise("RequestException")
                     ELSE UNCHANGED <<exc, cause, result, pc>>
    /\ rowNo' = rowNo + 1
    /\ UNCHANGED <<opLog, jur, creds, existing, session, pageNo, skipped, errors,
                   outcome, stubs, statusLog, storeAtStart>>
    /\ UNCHANGED <<today, portal, runNo, sideVars>>

ScriptReturn ==
    /\ pc = "s_rows"
    /\ rowNo > Len(portal[1])
    /\ result' = ScriptResult(Len(portal[1]), created)
    /\ pc' = "s_finally"
    /\ UNCHANGED <<opLog, jur, creds, existing, session, pageNo, rowNo, createLog,
                   rowLog, created, skipped, errors, exc, cause, outcome, stubs,
                   statusLog, storeAtStart>>
    /\ UNCHANGED <<envVars, sideVars>>

\* finally: driver.quit().
ScriptFinally ==
    /\ pc = "s_finally"
    /\ session' = {}
    /\ outcome' = "returned"
    /\ pc' = "done"
    /\ UNCHANGED <<opLog, jur, creds, existing, pageNo, rowNo, createLog, rowLog,
                   created, skipped, errors, exc, cause, result, stubs, statusLog,
                   storeAtStart>>
    /\ UNCHANGED <<envVars, sideVars>>

ScriptStep ==
    \/ ScriptMain
    \/ ScriptFetch
    \/ ScriptLogin
    \/ ScriptNavigate
    \/ ScriptSort
    \/ ScriptRow
    \/ ScriptReturn
    \/ ScriptFinally

\* --------------------------------------- src/rfp-sonar/run_all_scrapers.py
\* The scheduled run: the list of (name, scraper) pairs is built first, each
\* scraper constructed where the list is written, then scrape() is called on
\* each inside a try block, then the summary is printed.
Scheduled == <<"kentucky", "pennsylvania">>

NewSched == [pc |-> "build", built |-> <<>>, i |-> 1, results |-> <<>>]

\* Lines 19-22: KentuckyScraper() asks Salesforce for its account id while it
\* is constructed; an exception there leaves the script.
SchedBuild ==
    /\ sched.pc = "build"
    /\ LET name == Scheduled[Len(sched.built) + 1]
       IN  \E ok \in BOOLEAN :
             sched' = IF ~ok THEN [sched EXCEPT !.pc = "crashed"]
                      ELSE [sched EXCEPT
                              !.built = Append(@, name),
                              !.pc = IF Len(sched.built) + 1 = Len(Scheduled)
                                     THEN "loop" ELSE "build"]
    /\ UNCHANGED <<envVars, runVars, apiVars, authVars, mapVars, fieldVars, pickVars, pageVars, bgVars>>

\* Line 32: scraper.scrape().
SchedRun ==
    /\ sched.pc = "loop"
    /\ sched.i <= Len(sched.built)
    /\ LET j == sched.built[sched.i]
       IN  /\ \E c \in BOOLEAN : BeginScrape(j, c, accounts[j])
           /\ store' = accounts[j]
    /\ sched' = [sched EXCEPT !.pc = "running"]
    /\ UNCHANGED <<today, portal, runNo, apiVars, authVars, mapVars, fieldVars, pickVars, pageVars, bgVars>>

\* Lines 33-38: "SUCCESS", or "FAILED: ..." for an exception.
SchedCollect ==
    /\ sched.pc = "running"
    /\ pc = "done"
    /\ sched' = IF outcome = "raised" /\ ~ExceptException(exc)
                THEN [sched EXCEPT !.pc = "crashed"]
                ELSE [sched EXCEPT
                        !.results = DictSet(@, jur,
                                            IF outcome = "raised"
                                            THEN FailureEntry(exc) ELSE PyNone),
                        !.i = @ + 1,
                        !.pc = "loop"]
    /\ accounts' = [accounts EXCEPT ![jur] = store]
    /\ UNCHANGED <<req, apc, idx, results, response, runLog>>
    /\ UNCHANGED <<envVars, runVars, authVars, mapVars, fieldVars, pickVars, pageVars, bgVars>>

\* Lines 40-45: the summary.
SchedSummary ==
    /\ sched.pc = "loop"
    /\ sched.i > Len(sched.built)
    /\ sched' = [sched EXCEPT !.pc = "summary"]
    /\ UNCHANGED <<envVars, runVars, apiVars, authVars, mapVars, fieldVars, pickVars, pageVars, bgVars>>

SchedStep == SchedBuild \/ SchedRun \/ SchedCollect \/ SchedSummary

\* ------------------------------------------------ locator strategies
\* What one strategy gives when it is tried: an exception, no text, a text
\* the scraper does not accept (too long, too short), an accepted text.
StrategyOutcomes == {"raises", "empty", "rejected", "text"}

Picked(used, consulted) == [used |-> used, consulted |-> consulted]

\* The for loop over the selectors of a row field: `continue` on an
\* exception, `break` on the first accepted text.
RECURSIVE FirstAccepted(_, _)
FirstAccepted(outs, i) ==
    IF i > Len(outs) THEN Picked(0, Len(outs))
    ELSE IF outs[i] = "text" THEN Picked(i, i)
    ELSE FirstAccepted(outs, i + 1)

\* The status dropdown of Puerto Rico. Method 1 assigns the locator to
\* status_dropdown before it waits for it, so the name is bound whether the
\* wait raises or not, and `if not status_dropdown` skips methods 2 and 3; a
\* dropdown that is not there then fails at select_option.
FindStatusDropdown(outs) == Picked(IF outs[1] = "text" THEN 1 ELSE 0, 1)

DropdownMethods == 3

PickInput(kind, outs) == [kind |-> kind, outs |-> outs, done |-> FALSE,
                          res |-> Picked(0, 0)]
NoPick == PickInput("none", <<>>)

ExtractField ==
    /\ pick.kind = "field"
    /\ ~pick.done
    /\ pick' = [pick EXCEPT !.done = TRUE, !.res = FirstAccepted(pick.outs, 1)]
    /\ UNCHANGED <<envVars, runVars, apiVars, authVars, mapVars, fieldVars, schedVars, pageVars, bgVars>>

SetStatusFilter ==
    /\ pick.kind = "dropdown"
    /\ ~pick.done
    /\ pick' = [pick EXCEPT !.done = TRUE, !.res = FindStatusDropdown(pick.outs)]
    /\ UNCHANGED <<envVars, runVars, apiVars, authVars, mapVars, fieldVars, schedVars, pageVars, bgVars>>

PickStep == ExtractField \/ SetStatusFilter

\* ------------------------------------- the due date of a Puerto Rico row
\* What one due-date selector gives: inner_text raises, or it yields a text.
DueOutcome(raised, text) == [raised |-> raised, text |-> text]

DueSelectors == 4

DueTexts == {DateText("empty", 0), DateText("garbage", 0),
             DateText("mdY", FirstDay + 7), DateText("iso", FirstDay + 8)}

DueOutcomes ==
    {DueOutcome(TRUE, DateText("empty", 0))}
        \cup {DueOutcome(FALSE, t) : t \in DueTexts}

DueResult(used, consulted, value) ==
    [used |-> used, consulted |-> consulted, value |-> value]

\* The for loop over the due-date selectors: `continue` when inner_text
\* raises, nothing for an empty text, `break` as soon as parse_date gives a
\* value (it gives one for every text that is not empty).
RECURSIVE DueDateLoop(_, _, _)
DueDateLoop(outs, i, now) ==
    IF i > Len(outs) THEN DueResult(0, Len(outs), None)
    ELSE IF outs[i].raised \/ outs[i].text.fmt = "empty"
         THEN DueDateLoop(outs, i + 1, now)
    ELSE IF ParseDatePR(outs[i].text, now) # None
         THEN DueResult(i, i, ParseDatePR(outs[i].text, now))
    ELSE DueDateLoop(outs, i + 1, now)

\* The due date of the row: the loop's value, or 30 days from now.
DueDate(outs, now) ==
    LET r == DueDateLoop(outs, 1, now)
    IN  IF r.value = None THEN [r EXCEPT !.value = Some(now + FallbackDays)] ELSE r

ExtractDueDate ==
    /\ pick.kind = "due"
    /\ ~pick.done
    /\ pick' = [pick EXCEPT !.done = TRUE, !.res = DueDate(pick.outs, today)]
    /\ UNCHANGED <<envVars, runVars, apiVars, authVars, mapVars, fieldVars, schedVars, pageVars, bgVars>>

\* --------------------------- background runs of src/rfp-sonar/app.py
\* Each request to /scrape/kentucky starts a thread running
\* KentuckyScraper().scrape() and answers at once; nothing records that a
\* run is in progress. records: the records the runs created, in the order
\* the store accepted them, each with its key and the run that sent it.
BgThreads == {1, 2}
BgIdle == [pc |-> "idle", existing |-> {}, rowNo |-> 1, fetched |-> "none"]
NoBg == [run |-> [t \in BgThreads |-> BgIdle], records |-> <<>>]

\* The records of the account: those it held and those the runs added.
BgStore == store \cup {bg.records[i].key : i \in 1..Len(bg.records)}

\* scrape_kentucky: thread.start(), then the 'started' answer.
ScrapeKentucky(t) ==
    /\ bg.run[t].pc = "idle"
    /\ bg' = [bg EXCEPT !.run[t].pc = "fetch"]

\* run_scraper, up to the row loop: the existing-key query, then login and
\* navigation, which may raise and end the run.
BgFetch(t) ==
    /\ bg.run[t].pc = "fetch"
    /\ \E resp \in QueryResponses, reached \in BOOLEAN :
         bg' = [bg EXCEPT
                  !.run[t].existing = GetExistingSolicitationNumbers(resp, BgStore),
                  !.run[t].fetched = resp,
                  !.run[t].pc = IF reached THEN "rows" ELSE "ended"]

\* run_scraper, one row of the loop.
BgRow(t) ==
    /\ bg.run[t].pc = "rows"
    /\ bg.run[t].rowNo <= Len(portal[1])
    /\ LET k == portal[1][bg.run[t].rowNo].key
       IN  \E readOk \in BOOLEAN, resp \in CreateResponses :
             bg' = [bg EXCEPT
                      !.run[t].rowNo = @ + 1,
                      !.records = IF /\ readOk
                                     /\ ~IsDuplicate(k, bg.run[t].existing)
                                     /\ resp = "201"
                                  THEN Append(@, [key |-> k, by |-> t]) ELSE @]

\* run_scraper, after the loop: the status update raises, the handler
\* re-raises and run_scraper's except clause prints the failure.
BgEnd(t) ==
    /\ bg.run[t].pc = "rows"
    /\ bg.run[t].rowNo > Len(portal[1])
    /\ bg' = [bg EXCEPT !.run[t].pc = "ended"]

BgStep ==
    /\ \E t \in BgThreads : ScrapeKentucky(t) \/ BgFetch(t) \/ BgRow(t) \/ BgEnd(t)
    /\ UNCHANGED <<envVars, runVars, apiVars, authVars, mapVars, fieldVars,
                   schedVars, pickVars, pageVars>>

\* ------------------------------------------- runs from a runner script
\* run_*_scraper.py: the scraper is constructed and scrape() is called; a
\* later run meets the same portal and the store the earlier runs left.
RunScraper ==
    /\ pc \in {"idle", "done"}
    /\ runNo < MaxRuns
    /\ \E c \in BOOLEAN, shift \in 0..MaxDayShift :
         /\ BeginScrape(jur, c, store)
         /\ today' = today + shift
    /\ runNo' = runNo + 1
    /\ UNCHANGED <<portal, store, sideVars>>

\* Before any request: the handlers are idle and every account is empty.
InitTrigger ==
    /\ req = NoRequest
    /\ apc = "idle"
    /\ idx = 1
    /\ results = <<>>
    /\ response = NoResponse
    /\ runLog = <<>>
    /\ accounts = [j \in SCRAPERS |-> {}]

\* Before SalesforceAuth is constructed.
InitToken ==
    /\ clock = 0
    /\ auth = NoAuth
    /\ lastCall = NoCall
    /\ thr = [t \in Threads |-> IdleThread]
    /\ posts = 0

InitMapper == mapCall = NoMapCall

InitFields == fields = NoFields

InitSched == sched = NewSched

InitPick == pick = NoPick

InitPages == nextCtl = "absent"

InitBg == bg = NoBg

\* A scraper object as constructed, for the portals over rows, the stores
\* and the scraper classes given.
InitScraper(rows, stores, js) ==
    /\ today = FirstDay
    /\ portal \in PortalsOver(rows)
    /\ store \in stores
    /\ runNo = 0
    /\ jur \in js
    /\ creds = TRUE
    /\ pc = "idle"
    /\ existing = {}
    /\ session = {}
    /\ pageNo = 1
    /\ rowNo = 1
    /\ createLog = <<>>
    /\ rowLog = <<>>
    /\ created = 0
    /\ skipped = 0
    /\ errors = 0
    /\ exc = "none"
    /\ cause = "none"
    /\ outcome = "idle"
    /\ result = NoResult
    /\ stubs = 0
    /\ statusLog = <<>>
    /\ storeAtStart = {}
    /\ opLog = <<>>

InitRun(rows, stores) ==
    /\ InitScraper(rows, stores, Jurisdictions)
    /\ InitTrigger
    /\ InitToken
    /\ InitFields
    /\ InitSched
    /\ InitPick
    /\ InitPages
    /\ InitBg
    /\ InitMapper

KeyRows == {Row(k, GoodDate) : k \in PortalKeys \cup {EmptyKey}}

Init == InitRun(KeyRows, SUBSET PortalKeys)

Next == ScrapeStep \/ RunScraper

Spec == Init /\ [][Next]_vars

\* The same runs over listings whose rows differ in their closing-date text.
DateRows == {Row(Key("K", 0, 1), DateText(f, FirstDay + 7)) : f \in DateFormats}

InitDates == InitRun(DateRows, {{}})

SpecDates == InitDates /\ [][Next]_vars

\* A single run against a listing of at most two rows.
RunOnce == runNo = 0 /\ RunScraper

InitOnce == InitRun(KeyRows, SUBSET PortalKeys) /\ TotalRows(portal) <= 2

NextOnce == ScrapeStep \/ RunOnce

SpecOnce == InitOnce /\ [][NextOnce]_vars

\* ------------------------------------------ runs from the trigger service
\* Requests to src/app.py; every registered portal shows the same listing.
ApiRows == {Row(Key("K", 0, 1), GoodDate)}

InitApi ==
    /\ InitScraper(ApiRows, {{}}, {"kentucky"})
    /\ Len(portal) = 1
    /\ InitTrigger
    /\ InitToken
    /\ InitFields
    /\ InitSched
    /\ InitPick
    /\ InitPages
    /\ InitBg
    /\ InitMapper

NextApi == RegisteredStep \/ TriggerStep

SpecApi == InitApi /\ [][NextApi]_vars

\* --------------------------------------------------- the token cache alone
InitAuth ==
    /\ InitScraper({}, {{}}, {"kentucky"})
    /\ InitTrigger
    /\ InitToken
    /\ InitFields
    /\ InitSched
    /\ InitPick
    /\ InitPages
    /\ InitBg
    /\ InitMapper

SpecAuth == InitAuth /\ [][AuthStep]_vars

\* ------------------------------------------------- the field mappers alone
InitMap ==
    /\ InitScraper({}, {{}}, {"kentucky"})
    /\ InitTrigger
    /\ InitToken
    /\ InitFields
    /\ InitSched
    /\ InitPick
    /\ InitPages
    /\ InitBg
    /\ mapCall \in {MapInput(impl, raw) :
                       impl \in Mappers, raw \in TypeInputs \cup CategoryInputs}

SpecMap == InitMap /\ [][MapStep]_vars

\* ----------------------------------------------- the record fields alone
InitLen ==
    /\ InitScraper({}, {{}}, {"kentucky"})
    /\ InitTrigger
    /\ InitToken
    /\ InitMapper
    /\ InitSched
    /\ InitPick
    /\ InitPages
    /\ InitBg
    /\ fields \in {FieldInput(j, desc, org, key, err, url) :
                      j \in Jurisdictions, desc \in TextLens, org \in {0, NameLimit},
                      key \in KeyLens, err \in TextLens, url \in UrlLens}

SpecLen == InitLen /\ [][FieldStep]_vars

\* ------------------------------------------ two threads on one token cache
InitThreads ==
    /\ InitScraper({}, {{}}, {"kentucky"})
    /\ InitTrigger
    /\ InitMapper
    /\ InitFields
    /\ InitSched
    /\ InitPick
    /\ InitPages
    /\ InitBg
    /\ clock \in 0..MaxClock
    /\ auth \in {NewAuth(env) : env \in AuthEnvs}
    /\ lastCall = NoCall
    /\ thr = [t \in Threads |-> IdleThread]
    /\ posts = 0

NextThreads == ThreadStep \/ Tick

SpecThreads == InitThreads /\ [][NextThreads]_vars

\* ------------------------------------------------- the Kentucky script
InitScript ==
    /\ InitScraper(KeyRows, SUBSET PortalKeys, {"kentucky"})
    /\ InitTrigger
    /\ InitToken
    /\ InitFields
    /\ InitSched
    /\ InitPick
    /\ InitPages
    /\ InitBg
    /\ InitMapper

SpecScript == InitScript /\ [][ScriptStep]_vars

\* ------------------------------------------------------ the scheduled run
NextSched == RegisteredStep \/ SchedStep

SpecSched == InitApi /\ [][NextSched]_vars

\* ------------------------------------------- the locator strategies alone
InitLoc ==
    /\ InitScraper({}, {{}}, {"kentucky"})
    /\ InitTrigger
    /\ InitToken
    /\ InitMapper
    /\ InitFields
    /\ InitSched
    /\ InitPages
    /\ InitBg
    /\ pick \in {PickInput("field", outs) :
                    outs \in UNION {[1..n -> StrategyOutcomes] : n \in 1..MaxStrategies}}
               \cup {PickInput("dropdown", outs) :
                       outs \in {o \in [1..DropdownMethods ->
                                           StrategyOutcomes \ {"rejected"}] :
                                   o[1] # "empty"}}

SpecLoc == InitLoc /\ [][PickStep]_vars

\* ------------------------------------- Massachusetts and its page control
InitPager ==
    /\ InitScraper(KeyRows, SUBSET PortalKeys, {"massachusetts"})
    /\ InitTrigger
    /\ InitToken
    /\ InitMapper
    /\ InitFields
    /\ InitSched
    /\ InitPick
    /\ nextCtl \in NextControls
    /\ InitBg

NextPager == RegisteredStep \/ RunOnce

SpecPager == InitPager /\ [][NextPager]_vars

\* Two requests to /scrape/kentucky against one listing and one account.
InitBackground ==
    /\ InitScraper(KeyRows, SUBSET PortalKeys, {"kentucky"})
    /\ Len(portal) = 1
    /\ InitTrigger
    /\ InitToken
    /\ InitMapper
    /\ InitFields
    /\ InitSched
    /\ InitPick
    /\ InitPages
    /\ InitBg

SpecBackground == InitBackground /\ [][BgStep]_vars

\* The due-date loop over every outcome of its four selectors.
InitDue ==
    /\ InitScraper({}, {{}}, {"puerto_rico"})
    /\ InitTrigger
    /\ InitToken
    /\ InitMapper
    /\ InitFields
    /\ InitSched
    /\ InitPages
    /\ InitBg
    /\ pick \in {PickInput("due", outs) : outs \in [1..DueSelectors -> DueOutcomes]}

SpecDue == InitDue /\ [][ExtractDueDate]_vars

\* ------------------------------------- the trigger handlers on their own
\* What the return statements of a registered scrape() hand back: Kentucky
\* and Pennsylvania run off the end of the function, Massachusetts returns
\* its dict.
ScrapeValues(j) ==
    IF j = "massachusetts"
    THEN {ResultMA(n, {}, 1) : n \in 0..MaxRows}
    ELSE {PyNone}

\* The exceptions a handler is shown.
ScrapeErrors == {"ValueError", "PortalError"}

\* `result = scraper.scrape()` seen from the handler: the call ends with
\* one of the values the scraper returns, or raises.
ScrapeEnds ==
    /\ apc \in {"single", "batchrun"}
    /\ pc # "done"
    /\ pc' = "done"
    /\ \/ \E v \in ScrapeValues(jur) :
            /\ result' = v
            /\ outcome' = "returned"
            /\ UNCHANGED <<exc, cause>>
       \/ \E e \in ScrapeErrors :
            /\ exc' = e
            /\ cause' = e
            /\ outcome' = "raised"
            /\ UNCHANGED result
    /\ UNCHANGED <<jur, creds, existing, session, pageNo, rowNo, createLog,
                   rowLog, created, skipped, errors, stubs, statusLog,
                   storeAtStart, opLog>>
    /\ UNCHANGED <<envVars, sideVars>>

NextHandler == ScrapeEnds \/ TriggerStep

SpecHandler == InitApi /\ [][NextHandler]_vars

\* ------------------------------------------------------------ claims
\* The rows a run of scraper j reads, and the key it gives each.
SeenRows(j) ==
    IF j \in {"massachusetts", "pennsylvania"} THEN Flatten(portal) ELSE portal[1]

\* C1: in a second run against the unchanged portal, no create call is
\* answered 201 for a (non-empty) natural key that the record store held
\* when that run started.
C1_DedupIdempotence ==
    runNo >= 2 =>
        \A i \in 1..Len(createLog) :
            (createLog[i].resp = "201" /\ ~IsEmptyKey(createLog[i].key))
                => createLog[i].key \notin storeAtStart

\* C2: within one run no two create calls carry the same natural key.
C2_UniqueKeysInRun ==
    \A i, j \in 1..Len(createLog) :
        i # j => createLog[i].key # createLog[j].key

\* The scenario of C5: the run has ended, it read a listing of two rows
\* without error, and exactly one of the two keys is in the fetched set.
TwoRowScenario ==
    /\ pc = "done"
    /\ Len(SeenRows(jur)) = 2
    /\ Len(rowLog) = 2
    /\ \A i \in 1..2 : rowLog[i] # "fail"
    /\ \E i \in 1..2 :
         /\ RowKey(jur, SeenRows(jur)[i], i, today) \in existing
         /\ RowKey(jur, SeenRows(jur)[3 - i], 3 - i, today) \notin existing

NewKeyOfScenario ==
    LET i == CHOOSE n \in 1..2 :
                 RowKey(jur, SeenRows(jur)[n], n, today) \notin existing
    IN  RowKey(jur, SeenRows(jur)[i], i, today)

C7_DateFallbackInFuture ==
    \A i \in 1..Len(createLog) :
        createLog[i].raw.fmt \in {"empty", "garbage"} =>
            /\ createLog[i].closeDate # None
            /\ createLog[i].closeDate[1] > today

\* C10: once the browser session was set up, scrape() leaves no session
\* resource open, whichever way it exits.
C10_CleanupOnEveryExit == pc = "done" => session = {}

\* The requests and runs the claims about the trigger service speak of.
BatchDone == req.route = "batch" /\ apc = "idle" /\ response.code # 0
SingleDone == req.route = "single" /\ apc = "idle" /\ response.code # 0

\* The entry scrape_batch holds for a finished run.
EntryOf(r) == IF r.outcome = "raised" THEN FailureEntry(r.exc) ELSE r.result

\* The last run of the request for the jurisdiction named.
LastRunOf(name) ==
    runLog[CHOOSE i \in 1..Len(runLog) :
             /\ runLog[i].jur = name
             /\ \A k \in (i + 1)..Len(runLog) : runLog[k].jur # name]

\* Exceptions that come from the run's surroundings: missing credentials,
\* a portal that fails.
Faults == {"ValueError", "LoginError", "PortalError"}

\* C3 Failure isolation in a batch: for a batch of three registered
\* jurisdictions A, B, C where only B's run meets a fault, and meets it in
\* navigation, the results of A and C are the successful results their own
\* runs returned, B's result is a failure entry, and exactly one stub record
\* was created for B's account.
C3_BatchFailureIsolation ==
    LET js == req.body.jurisdictions
    IN  (/\ BatchDone
         /\ Len(js) = 3
         /\ {js[1], js[2], js[3]} = SCRAPERS
         /\ Len(runLog) = 3
         /\ runLog[2].cause = "PortalError"
         /\ runLog[1].cause \notin Faults
         /\ runLog[3].cause \notin Faults)
        => /\ response.kind = "batch"
           /\ \A i \in {1, 3} :
                /\ runLog[i].outcome = "returned"
                /\ response.results[i].entry = runLog[i].result
           /\ response.results[2].entry.success = "False"
           /\ runLog[2].stubs = 1

\* C4 Outcomes as data: no exception leaves a trigger handler; after a run
\* the single-jurisdiction handler answers 200 with the dict scrape()
\* returned or 500 with the jurisdiction and the error of the exception
\* scrape() raised; the batch handler answers 200 with one entry per
\* jurisdiction named, which is the dict the jurisdiction's run returned or
\* an entry {'success': False, 'error': ...} for a run that raised or a
\* name that is not registered, and no returned dict is such an entry.
C4_OutcomesAsData ==
    /\ response.kind # "unhandled"
    /\ (SingleDone /\ Len(runLog) = 1) =>
         IF runLog[1].outcome = "raised"
         THEN /\ response.code = 500
              /\ response.jurisdiction = runLog[1].jur
              /\ response.error = runLog[1].exc
         ELSE /\ response.code = 200
              /\ response.jurisdiction = runLog[1].jur
              /\ response.entry = runLog[1].result
              /\ response.entry.kind = "dict"
    /\ (BatchDone /\ req.keyOk /\ req.body.json /\ req.body.jurisdictions # <<>>) =>
         /\ response.code = 200
         /\ response.kind = "batch"
         /\ {response.results[i].name : i \in 1..Len(response.results)}
              = {req.body.jurisdictions[i] : i \in 1..Len(req.body.jurisdictions)}
         /\ \A i \in 1..Len(response.results) :
              LET e == response.results[i] IN
              IF e.name \notin SCRAPERS THEN e.entry = NotFoundEntry
              ELSE /\ e.entry = EntryOf(LastRunOf(e.name))
                   /\ (e.entry.success = "False") = (LastRunOf(e.name).outcome = "raised")

\* A batch answered with a failure entry for one run and the returned dict
\* of another.
C4_Witness ==
    /\ BatchDone
    /\ response.kind = "batch"
    /\ \E i, k \in 1..Len(response.results) :
         /\ response.results[i].name \in SCRAPERS
         /\ response.results[i].entry.success = "False"
         /\ response.results[k].entry.status = "success"

\* The mapping table a call looks its raw value up in.
MappingOf(call) ==
    IF call.fn = "map_category" THEN CategoryMapping
    ELSE IF call.impl = "BaseScraper" THEN TypeMapping
    ELSE LowerKeys(KyTypeMapping)

NoKeywordIn(call) ==
    \/ call.raw = None
    \/ \A i \in 1..Len(MappingOf(call)) :
         ~Contains(MappingOf(call)[i][1], Lower(call.raw[1]))

\* C6 Fallback totality of the field mappers: for every raw value, None and
\* the empty text included, map_solicitation_type and map_category of
\* BaseScraper and of scripts/ky_scraper.py return, what they return is not
\* empty, and it is 'Other' when no keyword of the table occurs in the value.
C6_MapperTotality ==
    mapCall.fn # "none" =>
        /\ mapCall.res.outcome = "returned"
        /\ mapCall.res.value # ""
        /\ NoKeywordIn(mapCall) => mapCall.res.value = "Other"

\* The real expiry of an access token, and the margin the cache keeps to it.
RealExpiry(tok) == tok.issued + TokenLifetime
SafetyMargin == TokenLifetime - RefreshAfter

\* The token the cache held when the last call was made is still more than
\* the safety margin away from its real expiry.
HeldFresh ==
    /\ lastCall.before.access_token # None
    /\ lastCall.at < RealExpiry(lastCall.before.access_token[1]) - SafetyMargin

\* C8 Token cache with safety margin: a call of get_access_token with OAuth
\* credentials returns the cached token, without contacting the token
\* endpoint, exactly when now < real expiry - safety margin, and contacts the
\* endpoint otherwise; a cached token whose real expiry is ten minutes (one
\* tick) away is not returned from the cache, and a token obtained less than
\* 1h30m (nine ticks) ago is.
C8_TokenCacheWithMargin ==
    lastCall.outcome \in {"cached", "refreshed", "raised"} =>
        /\ (lastCall.outcome = "cached") = HeldFresh
        /\ lastCall.outcome = "cached" =>
             /\ ~lastCall.contacted
             /\ lastCall.value = lastCall.before.access_token
        /\ ~HeldFresh => lastCall.contacted
        /\ (/\ lastCall.before.access_token # None
            /\ RealExpiry(lastCall.before.access_token[1]) - lastCall.at = 1)
           => lastCall.contacted
        /\ (/\ lastCall.before.access_token # None
            /\ lastCall.at - lastCall.before.access_token[1].issued < 9)
           => lastCall.outcome = "cached"

\* A call that finds a cached token ten minutes from its real expiry, and
\* refreshes it.
C8_Witness ==
    /\ lastCall.outcome = "refreshed"
    /\ lastCall.before.access_token # None
    /\ RealExpiry(lastCall.before.access_token[1]) - lastCall.at = 1

\* C9 Token refresh failure is fatal: a call whose token exchange fails
\* raises and returns no token, the cached one included, and leaves
\* access_token and token_expires_at as they were; the call after a failed
\* one contacts the token endpoint again.
C9_RefreshFailureFatal ==
    /\ (lastCall.contacted /\ lastCall.outcome # "refreshed") =>
         /\ lastCall.outcome = "raised"
         /\ lastCall.value = None
         /\ auth.access_token = lastCall.before.access_token
         /\ auth.token_expires_at = lastCall.before.token_expires_at
    /\ (lastCall.prev = "raised" /\ lastCall.outcome # "none") => lastCall.contacted

\* A failed exchange while an expired token is held, followed by a call
\* that fails again.
C9_Witness ==
    /\ lastCall.prev = "raised"
    /\ lastCall.outcome = "raised"
    /\ lastCall.before.access_token # None

\* A run that failed fatally: an exception other than a per-row one ended
\* it, or it returned the 'failed' result of an empty listing.
FatalFailure ==
    /\ pc = "done"
    /\ \/ cause # "none"
       \/ (outcome = "returned" /\ result.status = "failed")

\* A run that came to the end of its listing without a fatal failure.
CleanRun == pc = "done" /\ cause = "none" /\ result.status # "failed"

\* C11 Stub on fatal failure: a run that fails fatally with an exception in
\* navigation, listing or extraction setup has created exactly one stub
\* record for the account when it ends, and a run that succeeds has
\* created none.
C11_StubOnFatalFailure ==
    /\ (pc = "done" /\ cause = "PortalError") => stubs = 1
    /\ CleanRun => stubs = 0

\* C12 Terminal status: a run that has ended has written exactly one account
\* status, which is 'Success' when the run did not fail fatally and 'Failed'
\* or 'Error' when it did.
C12_TerminalStatus ==
    pc = "done" =>
        /\ Len(statusLog) = 1
        /\ (statusLog[1] = "Success") = ~FatalFailure
        /\ statusLog[1] \in {"Success", "Failed", "Error"}

\* The rows of the listing a run would send to create: read without error
\* and not in the fetched set.
RowsSent == {i \in 1..Len(rowLog) : rowLog[i] = "sent"}

\* C13 Per-record create failure does not abort the batch: a run whose
\* surroundings fail in nothing but a create call (a non-201 answer or the
\* request raising) goes through every row of the listing, sends a create
\* call for every row it read that is no duplicate, and ends as a success.
C13_CreateFailureIsolated ==
    (/\ pc = "done"
     /\ cause \notin Faults
     /\ \E i \in 1..Len(createLog) : createLog[i].resp # "201")
    => /\ Len(rowLog) = Len(SeenRows(jur))
       /\ Len(createLog) = Cardinality(RowsSent)
       /\ outcome = "returned"
       /\ result.status = "success" \/ "Success" \in {statusLog[i] : i \in 1..Len(statusLog)}

\* The positions of the run's operation log that hold the operation named.
OpsAt(op) == {i \in 1..Len(opLog) : opLog[i] = op}

\* C14 The existing-key set is fetched exactly once per run, before any
\* portal navigation or row extraction: no run queries the store twice,
\* every login and navigation comes after the query, no row is processed
\* without it, and a run that got past its credential check has made it
\* by the time it ends.
C14_FetchOnceFirst ==
    /\ Cardinality(OpsAt("fetch")) <= 1
    /\ \A n \in OpsAt("login") \cup OpsAt("navigate") :
         \E f \in OpsAt("fetch") : f < n
    /\ rowLog # <<>> => OpsAt("fetch") # {}
    /\ (pc = "done" /\ cause # "ValueError") => Cardinality(OpsAt("fetch")) = 1

\* C15: every record a listing scraper sends to the create call carries a
\* non-empty Solicitation_Number__c, whatever rows the portal presents.
C15_NonEmptyKey ==
    \A i \in 1..Len(createLog) : ~IsEmptyKey(createLog[i].key)

\* C16: the Name of every record built for the create call, stub records
\* included, has at most 120 characters, and every message handed to the
\* account-status update has at most 255, whatever the lengths of the
\* portal texts and of the error message.
C16_FieldCeilings ==
    /\ fields.op \in {"create", "stub"} => fields.name <= NameLimit
    /\ fields.op = "status" => fields.message <= MessageLimit

\* C17: when any OAuth setting is missing and a legacy key is configured,
\* the object is constructed with a warning and every get_access_token call
\* returns the legacy key without contacting the token endpoint; when no
\* legacy key is configured either, construction raises.
C17_LegacyKeyFallback ==
    /\ (auth.state # "none" /\ ~AllOAuth(auth.env) /\ auth.env.legacy) =>
         /\ auth.state = "ready"
         /\ auth.warned
         /\ lastCall.outcome # "none" =>
              /\ lastCall.outcome = "legacy"
              /\ lastCall.value = Some(LegacyKey)
              /\ ~lastCall.contacted
    /\ (auth.state # "none" /\ ~AllOAuth(auth.env) /\ ~auth.env.legacy) =>
         auth.state = "raised"

\* C18: when two threads call get_access_token on the same object while no
\* valid token is cached, one token exchange is performed and the second
\* caller waits for its result: no two exchanges are ever in flight at once.
C18_SingleWriterRefresh ==
    Cardinality({t \in Threads : thr[t].pc = "post"}) <= 1

\* C19: a run of Kentucky or Massachusetts whose portal credentials are
\* missing or rejected ends failed after at most one login attempt, with
\* one stub record created and a Failed or Error status written to the
\* account.
CredentialFailure ==
    /\ pc = "done"
    /\ jur \in {"kentucky", "massachusetts"}
    /\ cause \in {"ValueError", "LoginError"}

C19_CredentialFailureFatal ==
    CredentialFailure =>
        /\ FatalFailure
        /\ Cardinality(OpsAt("login")) <= 1
        /\ stubs = 1
        /\ \E i \in 1..Len(statusLog) : statusLog[i] \in {"Failed", "Error"}

\* C20: a failure while applying the listing filter, the page size or the
\* sort by closing date never aborts a run: no run ends on the exception of
\* such a step.
FilterFailures == OpsAt("filter_failed") \cup OpsAt("sort_failed")

C20_BestEffortFilterSort ==
    FilterFailures # {} => cause \notin {"FilterError", "SortError"}

\* C21: a run that gets as far as the listing and finds no row at all is a
\* failed run: a Failed or Error status is written, one stub record is
\* created, and the run is not reported as a success.
NoListingFound ==
    /\ pc = "done"
    /\ OpsAt("navigate") # {}
    /\ cause \notin Faults
    /\ TotalRows(portal) = 0

C21_NoListingIsFatal ==
    NoListingFound =>
        /\ \E i \in 1..Len(statusLog) : statusLog[i] \in {"Failed", "Error"}
        /\ stubs = 1
        /\ result.status # "success"

\* C22: in the scheduled run, a failure of one jurisdiction's scraper at any
\* point, its construction included, keeps no other jurisdiction from
\* running, and when the script ends the summary holds an entry for every
\* jurisdiction of the list.
SchedEnded == sched.pc \in {"summary", "crashed"}

C22_ScheduledRunIsolation ==
    SchedEnded =>
        /\ sched.pc = "summary"
        /\ \A k \in 1..Len(Scheduled) :
             \E n \in 1..Len(sched.results) : sched.results[n].name = Scheduled[k]

\* C23: the strategies of a field are tried in their listed order; the first
\* one that yields an accepted text is used and none after it is consulted; a
\* strategy that raises counts as no match and the next one is tried; when
\* none yields a text the field has no value.
FirstTextIn(outs) ==
    IF \E i \in 1..Len(outs) : outs[i] = "text"
    THEN CHOOSE i \in 1..Len(outs) :
           /\ outs[i] = "text"
           /\ \A k \in 1..(i - 1) : outs[k] # "text"
    ELSE 0

C23_OrderedLocatorFallback ==
    pick.done =>
        /\ pick.res.used = FirstTextIn(pick.outs)
        /\ pick.res.consulted = IF FirstTextIn(pick.outs) = 0 THEN Len(pick.outs)
                                ELSE FirstTextIn(pick.outs)

\* C24: after a page is extracted Massachusetts goes on to the next page if
\* and only if there is one to go to: it never clicks the control of the
\* last page, and a completed run has extracted every page exactly once.
PagesExtracted == [n \in 1..pageNo |-> ShownPage(portal, n)]

C24_PaginationStep ==
    (jur = "massachusetts" /\ pc \in {"rows", "status", "finally", "done"}
                           /\ cause \notin Faults) =>
        /\ pageNo <= Len(portal)
        /\ \A m, n \in 1..pageNo : m # n => PagesExtracted[m] # PagesExtracted[n]
        /\ pc \in {"status", "finally", "done"} => pageNo = Len(portal)

\* C25: for every finite listing the page loop of Massachusetts comes to an
\* end: the number of passes through the loop is bounded by the number of
\* pages of the listing, also when the control stays in view on the last
\* page and a click on it changes nothing.
LoopPasses == pageNo

C25_PaginationTerminates ==
    (jur = "massachusetts" /\ pc = "rows") => LoopPasses <= Len(portal)

\* Where keyword key occurs in text t when letter case is set aside.
FoldedAt(key, t) ==
    {i \in 0..(Len(t) - Len(key)) :
        \A k \in 1..Len(key) : LowerChar(t[i + k]) = LowerChar(key[k])}

\* The table entries whose keyword occurs in the raw value of a call.
Matches(call) ==
    {i \in 1..Len(MappingOf(call)) : FoldedAt(MappingOf(call)[i][1], call.raw[1]) # {}}

Least(S) == CHOOSE n \in S : \A m \in S : n <= m

\* C26: map_solicitation_type and map_category return the value of the first
\* table entry, in the table's order, whose keyword is a case-insensitive
\* substring of the input, and 'Other' when there is none; where the
\* keywords stand in the input plays no part.
C26_FirstMatchByTableOrder ==
    (mapCall.fn # "none" /\ mapCall.raw # None /\ mapCall.res.outcome = "returned") =>
        mapCall.res.value =
            IF Matches(mapCall) = {} THEN "Other"
            ELSE MappingOf(mapCall)[Least(Matches(mapCall))][2]

\* A call whose input holds two keywords, the one later in the table standing
\* first in the input, answered with the value of the one earlier in the table.
C26_Witness ==
    /\ mapCall.fn = "map_category"
    /\ mapCall.raw # None
    /\ \E i, k \in Matches(mapCall) :
         /\ i < k
         /\ MappingOf(mapCall)[i][2] # MappingOf(mapCall)[k][2]
         /\ Least(FoldedAt(MappingOf(mapCall)[k][1], mapCall.raw[1]))
              < Least(FoldedAt(MappingOf(mapCall)[i][1], mapCall.raw[1]))
         /\ mapCall.res.value = MappingOf(mapCall)[i][2]

\* C27: when a run fails on a portal step, the exception that leaves scrape()
\* is the one that step raised; a failure of the status update or of the
\* stub creation inside the except clause does not take its place.
C27_CausingErrorPreserved ==
    (pc = "done" /\ cause \in {"LoginError", "PortalError"} /\ outcome = "raised") =>
        exc = cause

\* The rows the portal displays to a run that has got to page pageNo, page
\* after page; a page displayed again is listed again.
RowsShown ==
    IF jur = "massachusetts"
    THEN Flatten([n \in 1..pageNo |-> portal[Least({n, Len(portal)})]])
    ELSE SeenRows(jur)

KeyShown(i) == RowKey(jur, RowsShown[i], i, today)

\* The displayed rows among the first k for which a create call went out.
SentAmong(k) == {i \in 1..k : rowLog[i] = "sent"}

InRowLoop ==
    /\ pc \in {"rows", "status", "finally", "handler", "done"}
    /\ rowLog # <<>>
    /\ Len(rowLog) <= Len(RowsShown)

RECURSIVE SumCreated(_)
SumCreated(d) ==
    IF d = <<>> THEN 0
    ELSE (IF Head(d).entry.status = "success" THEN Head(d).entry.created ELSE 0)
         + SumCreated(Tail(d))

\* C29: in a /scrape/batch response the totals are the sums of the counts
\* reported by the jurisdictions whose run succeeded, and
\* jurisdictions_processed is the number of jurisdiction ids requested.
C29_BatchTotals ==
    (req.route = "batch" /\ response.kind = "batch") =>
        /\ response.totalNew = SumCreated(response.results)
        /\ response.processed = Len(req.body.jurisdictions)

\* The runs of the request all ended without raising.
AllRunsReturned ==
    /\ runLog # <<>>
    /\ \A i \in 1..Len(runLog) : runLog[i].outcome = "returned"

Answered201 == {n \in 1..Len(createLog) : createLog[n].resp = "201"}

\* C31: the number of new records a run counts is the number of its create
\* calls that the store answered with 201; a rejected create is not counted.
C31_CreatedCountExact ==
    pc \in {"rows", "status", "finally", "handler", "done"} =>
        created = Cardinality(Answered201)

\* Every existing-key query of the background runs was answered.
QueriesAnswered == \A t \in BgThreads : bg.run[t].fetched \in {"none", "200"}

\* C32: when two runs of one jurisdiction are in progress at the same time
\* (and the store answers their existing-key queries), no natural key is
\* created by both of them.
C32_NoDuplicateUnderConcurrency ==
    QueriesAnswered =>
        \A i, j \in 1..Len(bg.records) :
            (bg.records[i].by # bg.records[j].by
                /\ ~IsEmptyKey(bg.records[i].key))
              => bg.records[i].key # bg.records[j].key

\* The existing-key query of the run was sent and did not bring back the
\* keys the store held: the store answered it with a non-200 response.
QueryFailed ==
    /\ OpsAt("fetch") # {}
    /\ existing # GetExistingSolicitationNumbers("200", storeAtStart)

\* C33: a run whose existing-key query the store answered with a non-200
\* response issues no create call for a natural key the store already held.
C33_FailedQueryNotEmptyStore ==
    QueryFailed =>
        \A n \in 1..Len(createLog) :
            ~IsEmptyKey(createLog[n].key) => createLog[n].key \notin storeAtStart

\* The run read every row of the listing and nothing raised before its
\* final status update, which raised (the method it calls does not exist).
OnlySuccessUpdateRaised ==
    /\ pc = "done"
    /\ jur # "pennsylvania"
    /\ ~HasMethod(jur, "update_account_scrape_status")
    /\ OpsAt("navigate") # {}
    /\ rowLog # <<>>
    /\ Len(rowLog) = Len(SeenRows(jur))
    /\ cause \in {"none", "AttributeError"}

\* C34: a run that processed all pages and whose 'Success' status update
\* alone raised still returns normally: no exception reaches the caller, no
\* Failed/Error status is written and no stub is created.
C34_SuccessUpdateFailureHarmless ==
    OnlySuccessUpdateRaised =>
        /\ outcome = "returned"
        /\ exc = "none"
        /\ stubs = 0
        /\ \A i \in 1..Len(statusLog) : statusLog[i] \notin {"Failed", "Error"}

\* The selectors whose text is a date in one of parse_date's formats.
ParsableAt(outs) ==
    {i \in 1..Len(outs) : ~outs[i].raised /\ outs[i].text.fmt \in {"mdY", "iso"}}

\* C35: when an earlier due-date locator yields a text that is no parsable
\* date, the later locators are still tried: the due date of the row is the
\* date of the first locator whose text parses, not the 30-day default.
C35_DueDateFallThrough ==
    (pick.kind = "due" /\ pick.done /\ ParsableAt(pick.outs) # {}) =>
        pick.res.value = Some(pick.outs[Least(ParsableAt(pick.outs))].text.day)

\* The records the store holds under a substituted key for row position n.
SyntheticRecords(n) == {k \in store : k.tag \in {"PR", "VA"} /\ k.n = n}

\* C36: for a Puerto Rico or Virginia row without a solicitation number the
\* substituted key is the same in every run against the unchanged portal, so
\* the store never holds two records for one such row.
C36_SyntheticKeyStable ==
    jur \in {"puerto_rico", "virginia"} =>
        \A n \in 1..MaxRows : Cardinality(SyntheticRecords(n)) <= 1

\* The routes behind the API key.
GatedRoutes == {"list", "single", "batch"}

\* C37: a request to /scrapers, /scrape/<jurisdiction> or /scrape/batch
\* whose X-API-Key is not the configured key is answered 401 at once: the
\* answer names no scraper, no scraper is constructed or run, and the portal,
\* the record store and the accounts are as they were.
C37_ApiKeyGate ==
    [][(req'.no # req.no /\ req'.route \in GatedRoutes /\ ~req'.keyOk) =>
          /\ response' = Unauthorized
          /\ response'.scrapers = {}
          /\ apc' = "idle"
          /\ UNCHANGED <<runVars, envVars, accounts>>]_vars

\* A batch request without the key, answered 401.
C37_Witness ==
    /\ req.route = "batch"
    /\ ~req.keyOk
    /\ req.body.json
    /\ \E i \in 1..Len(req.body.jurisdictions) : req.body.jurisdictions[i] \in SCRAPERS
    /\ apc = "idle"
    /\ response.code = 401
    /\ pc = "idle"

====
